---- MODULE Spec2Model ----
(***************************************************************************)
(* A model of OSCPack's Bates pipeline (src/core.py): traversal, planning, *)
(* allocation, two-phase rename, folder renaming, letter reformat,         *)
(* stamping and final assembly, over an explicit file tree.                *)
(*                                                                         *)
(* File and directory names are sequences of one-character strings, so     *)
(* that formatting a label and matching it against BATES_NAME_PATTERN are  *)
(* two different computations.  A path is the sequence of names below the  *)
(* root folder; the root itself is the empty path.                         *)
(***************************************************************************)
EXTENDS Integers, Sequences, FiniteSets, TLC

(***************************************************************************)
(* Bounds of the model.                                                    *)
(***************************************************************************)
MaxPages == 2
MaxFiles == 2
MaxStart == 1
\* The direct calls of build_renames and apply_renames.
MaxItems == 3
MaxItemPages == 3
MaxAllocStart == 5
MaxDigits == 2

(***************************************************************************)
(* Characters.                                                             *)
(***************************************************************************)
DigitSeq == <<"0", "1", "2", "3", "4", "5", "6", "7", "8", "9">>
UpperSeq == <<"A", "B", "C", "D", "E", "F", "G", "H", "I", "J", "K", "L", "M",
              "N", "O", "P", "Q", "R", "S", "T", "U", "V", "W", "X", "Y", "Z">>
LowerSeq == <<"a", "b", "c", "d", "e", "f", "g", "h", "i", "j", "k", "l", "m",
              "n", "o", "p", "q", "r", "s", "t", "u", "v", "w", "x", "y", "z">>
\* The characters of the model in code point order.
AsciiOrder == <<" ", "-", ".">> \o DigitSeq \o UpperSeq \o <<"_">> \o LowerSeq \o <<"~">>

Range(s) == {s[i] : i \in 1..Len(s)}
Chars == Range(AsciiOrder)
\* \d, [A-Za-z0-9] and \s over the model's characters.
Digits == Range(DigitSeq)
Alnums == Range(DigitSeq) \cup Range(UpperSeq) \cup Range(LowerSeq)
Spaces == {" "}
\* ord(c) and c.lower(), as tables.
OrdTable == [c \in Chars |-> CHOOSE i \in 1..Len(AsciiOrder) : AsciiOrder[i] = c]
LowerTable ==
    [c \in Chars |-> IF c \in Range(UpperSeq)
                     THEN LowerSeq[CHOOSE i \in 1..Len(UpperSeq) : UpperSeq[i] = c]
                     ELSE c]
Ord(c) == OrdTable[c]
LowerChar(c) == LowerTable[c]
\* str.lower()
Lower(s) == [i \in 1..Len(s) |-> LowerChar(s[i])]

\* s[i:] and s[:i] of Python, with i counted from 0.
Drop(s, i) == SubSeq(s, i + 1, Len(s))
Take(s, i) == SubSeq(s, 1, i)
StartsWith(s, p) == Len(s) >= Len(p) /\ Take(s, Len(p)) = p

\* The length of the longest prefix of s whose characters all satisfy the class.
RECURSIVE RunLen(_, _)
RunLen(s, cls) ==
    IF s # <<>> /\ Head(s) \in cls THEN 1 + RunLen(Tail(s), cls) ELSE 0
NonDigits == Chars \ Digits
DigitRun(s) == RunLen(s, Digits)
NonDigitRun(s) == RunLen(s, NonDigits)
AlnumRun(s) == RunLen(s, Alnums)
SpaceRun(s) == RunLen(s, Spaces)

(***************************************************************************)
(* Numbers and their decimal text.                                         *)
(***************************************************************************)
DigitVal(c) == OrdTable[c] - OrdTable["0"]
\* int(s) for a non-empty string of digits.
RECURSIVE ToInt(_)
ToInt(s) ==
    IF s = <<>> THEN 0
    ELSE 10 * ToInt(Take(s, Len(s) - 1)) + DigitVal(s[Len(s)])
\* str(n) for n >= 0.
RECURSIVE ToDigits(_)
ToDigits(n) ==
    IF n < 10 THEN <<DigitSeq[n + 1]>>
    ELSE ToDigits(n \div 10) \o <<DigitSeq[(n % 10) + 1]>>
RECURSIVE Zeros(_)
Zeros(k) == IF k <= 0 THEN <<>> ELSE <<"0">> \o Zeros(k - 1)
\* f"{n:0{width}d}" for n >= 0: zero padded to at least width characters.
Pad(n, width) == Zeros(width - Len(ToDigits(n))) \o ToDigits(n)

(***************************************************************************)
(* Path.name, Path.suffix and Path.stem.                                   *)
(***************************************************************************)
RECURSIVE LastDot(_)
\* str.rfind("."), counted from 1; 0 when there is no dot.
LastDot(s) ==
    IF s = <<>> THEN 0
    ELSE IF s[Len(s)] = "." THEN Len(s)
    ELSE LastDot(Take(s, Len(s) - 1))
HasSuffix(name) == LastDot(name) > 1 /\ LastDot(name) < Len(name)
Suffix(name) == IF HasSuffix(name) THEN Drop(name, LastDot(name) - 1) ELSE <<>>
Stem(name) == IF HasSuffix(name) THEN Take(name, LastDot(name) - 1) ELSE name
NameOf(path) == path[Len(path)]
Parent(path) == Take(path, Len(path) - 1)
WithName(path, name) == Parent(path) \o <<name>>
WithSuffix(path, suffix) == WithName(path, Stem(NameOf(path)) \o suffix)

(***************************************************************************)
(* natural_key: the name split into alternating non-digit and digit runs   *)
(* (re.split(r"(\d+)", name) starts and ends with a non-digit run, which   *)
(* may be empty); digit runs compare as integers, the others lowercased    *)
(* and by code point; the lists compare as Python lists do.                *)
(***************************************************************************)
RECURSIVE SplitRuns(_)
SplitRuns(s) ==
    LET k == NonDigitRun(s)
        r == Drop(s, k)
        d == DigitRun(r)
    IN  IF r = <<>> THEN <<Take(s, k)>>
        ELSE <<Take(s, k), Take(r, d)>> \o SplitRuns(Drop(r, d))

RECURSIVE StrLess(_, _)
\* a < b for Python strings.
StrLess(a, b) ==
    IF b = <<>> THEN FALSE
    ELSE IF a = <<>> THEN TRUE
    ELSE IF Head(a) # Head(b) THEN Ord(Head(a)) < Ord(Head(b))
    ELSE StrLess(Tail(a), Tail(b))

\* The key of natural_key: element i is a string for odd i, an integer for even i.
natural_key(name) ==
    LET runs == SplitRuns(name)
    IN  [i \in 1..Len(runs) |->
            IF i % 2 = 0 THEN [int |-> ToInt(runs[i]), str |-> <<>>]
            ELSE [int |-> 0, str |-> Lower(runs[i])]]

RECURSIVE KeyLess(_, _)
\* ka < kb for two keys, as lists.
KeyLess(ka, kb) ==
    IF kb = <<>> THEN FALSE
    ELSE IF ka = <<>> THEN TRUE
    ELSE IF Head(ka) # Head(kb)
         THEN \/ Head(ka).int < Head(kb).int
              \/ Head(ka).int = Head(kb).int /\ StrLess(Head(ka).str, Head(kb).str)
    ELSE KeyLess(Tail(ka), Tail(kb))
NameLess(a, b) == KeyLess(natural_key(a), natural_key(b))

(***************************************************************************)
(* BATES_NAME_PATTERN.match(stem):                                         *)
(*   ^(?P<prefix>[A-Za-z0-9]+)\s+(?P<start>\d+)(?:-(?P<end>\d+))?          *)
(*    (?:\s*-\s*.+)?$                                                      *)
(* The prefix, the blanks and the start are each followed by a character   *)
(* of another class, so each is the longest run.  The end group is tried   *)
(* first, with its longest digit run; when what follows it is neither the  *)
(* end of the stem nor a tail, the matcher gives the end group up and      *)
(* takes "-<digits>..." as the tail.  The result carries the groups as     *)
(* text; end is empty when the group did not take part.                    *)
(***************************************************************************)
\* (?:\s*-\s*.+) matches all of r.
IsTail(r) ==
    LET k == SpaceRun(r)
    IN  Len(r) >= k + 2 /\ r[k + 1] = "-"
NoMatch == [ok |-> FALSE, prefix |-> <<>>, start |-> <<>>, end |-> <<>>]
BATES_NAME_PATTERN(stem) ==
    LET afterEnd(prefix, start, r3, e) ==
          IF e > 0 /\ (Drop(r3, e + 1) = <<>> \/ IsTail(Drop(r3, e + 1)))
          THEN [ok |-> TRUE, prefix |-> prefix, start |-> start, end |-> SubSeq(r3, 2, e + 1)]
          ELSE IF r3 = <<>> \/ IsTail(r3)
          THEN [ok |-> TRUE, prefix |-> prefix, start |-> start, end |-> <<>>]
          ELSE NoMatch
        afterStart(prefix, start, r3) ==
          afterEnd(prefix, start, r3,
                   IF r3 # <<>> /\ Head(r3) = "-" THEN DigitRun(Tail(r3)) ELSE 0)
        afterBlanks(prefix, r2, d) ==
          IF d = 0 THEN NoMatch ELSE afterStart(prefix, Take(r2, d), Drop(r2, d))
        afterPrefix(prefix, r1, w) ==
          IF w = 0 THEN NoMatch
          ELSE afterBlanks(prefix, Drop(r1, w), DigitRun(Drop(r1, w)))
        match(p) ==
          IF p = 0 THEN NoMatch
          ELSE afterPrefix(Take(stem, p), Drop(stem, p), SpaceRun(Drop(stem, p)))
    IN  match(AlnumRun(stem))


(***************************************************************************)
(* Program constants (src/core.py, lines 51 and 78-87).                    *)
(***************************************************************************)
BACKUP_FOLDER_NAME == <<"_", "b", "a", "t", "e", "s", "_", "b", "a", "c", "k", "u", "p", "s">>
PDF_EXT == <<".", "p", "d", "f">>
WORD_EXTS == {<<".", "d", "o", "c", "x">>}
EXCEL_EXTS == {<<".", "x", "l", "s">>, <<".", "x", "l", "s", "x">>,
               <<".", "x", "l", "s", "m">>, <<".", "x", "l", "s", "b">>}
VIDEO_EXTS == {<<".", "m", "p", "4">>, <<".", "m", "o", "v">>, <<".", "m", "4", "v">>,
               <<".", "a", "v", "i">>, <<".", "m", "k", "v">>, <<".", "w", "m", "v">>,
               <<".", "f", "l", "v">>}
IMAGE_EXTS == {<<".", "j", "p", "g">>, <<".", "j", "p", "e", "g">>, <<".", "p", "n", "g">>,
               <<".", "t", "i", "f">>, <<".", "t", "i", "f", "f">>, <<".", "b", "m", "p">>,
               <<".", "g", "i", "f">>}
HTML_EXTS == {<<".", "h", "t", "m", "l">>, <<".", "h", "t", "m">>}
TEXT_EXTS == {<<".", "t", "x", "t">>}
BLOCKED_OTHER_EXTS == {<<".", "d", "o", "c">>, <<".", "e", "m", "l">>, <<".", "m", "s", "g">>}
JunkNames == {<<"T", "h", "u", "m", "b", "s", ".", "d", "b">>,
              <<"d", "e", "s", "k", "t", "o", "p", ".", "i", "n", "i">>}

\* path.suffix.lower()
Ext(path) == Lower(Suffix(NameOf(path)))

(***************************************************************************)
(* The file tree.  A tree is a record [files, dirs]: files maps the path   *)
(* of every file to its content, dirs is the set of directory paths below  *)
(* the root.  A content records where it came from (orig: the path the     *)
(* file had when the run started; kind: an original, a conversion product  *)
(* or the combined output), its page count as PdfReader sees it (-1: the   *)
(* reader raises), whether it was rewritten to Letter, and the label       *)
(* numbers stamped on its pages.                                           *)
(***************************************************************************)
Content(orig, kind, pages) ==
    [orig |-> orig, kind |-> kind, pages |-> pages, letter |-> FALSE, stamps |-> <<>>]
Exists(t, p) == p \in DOMAIN t.files \/ p \in t.dirs \/ p = <<>>
IsFile(t, p) == p \in DOMAIN t.files
IsDir(t, p) == p \in t.dirs \/ p = <<>>
\* Path.mkdir(parents=True, exist_ok=True)
Ancestors(p) == {Take(p, k) : k \in 1..Len(p)}
Mkdirs(t, d) == [t EXCEPT !.dirs = @ \cup Ancestors(d)]
\* Writing a file at p, creating or replacing it.
WriteFile(t, p, c) ==
    [t EXCEPT !.files = [q \in DOMAIN t.files \cup {p} |-> IF q = p THEN c ELSE t.files[q]]]
\* Path.unlink(missing_ok=True)
Unlink(t, p) ==
    [t EXCEPT !.files = [q \in DOMAIN t.files \ {p} |-> t.files[q]]]
\* os.rename / os.replace of a file onto a free path or onto another file.
MoveFile(t, src, dst) == Unlink(WriteFile(t, dst, t.files[src]), src)
\* Path.rename of a directory onto a free path: everything below moves along.
Rebase(p, src, dst) == IF StartsWith(p, src) THEN dst \o Drop(p, Len(src)) ELSE p
MoveDir(t, src, dst) ==
    [files |-> [q \in {Rebase(p, src, dst) : p \in DOMAIN t.files} |->
                    t.files[CHOOSE p \in DOMAIN t.files : Rebase(p, src, dst) = q]],
     dirs  |-> {Rebase(p, src, dst) : p \in t.dirs}]
\* The names in directory d (Path.iterdir).
Children(t, d) ==
    {p[Len(d) + 1] : p \in {q \in DOMAIN t.files \cup t.dirs : Len(q) > Len(d) /\ Take(q, Len(d)) = d}}

(***************************************************************************)
(* iter_finder_order_files.  sorted() is stable, so entries with equal     *)
(* keys keep the order in which the file system enumerates them, which is  *)
(* any order: the operator gives the set of traversals the call can yield. *)
(***************************************************************************)
RECURSIVE Unsorted(_)
\* A faulty variant of the function below: the entries are left in the order
\* in which the file system enumerates them.
Unsorted(names) ==
    IF names = {} THEN {<<>>}
    ELSE UNION {{<<x>> \o rest : rest \in Unsorted(names \ {x})} : x \in names}
RECURSIVE SortedOrders(_)
\* The orders in which sorted(..., key=natural_key) can leave a set of names.
SortedOrders(names) ==
    IF names = {} THEN {<<>>}
    ELSE LET least == {x \in names : \A y \in names : ~NameLess(y, x)}
         IN  UNION {{<<x>> \o rest : rest \in SortedOrders(names \ {x})} : x \in least}
Hidden(name) == Head(name) = "." \/ Head(name) = "~"
Skipped(path) ==
    \/ BACKUP_FOLDER_NAME \in Range(path)
    \/ Hidden(NameOf(path))
    \/ NameOf(path) \in JunkNames
RECURSIVE iter_finder_order_files(_, _)
RECURSIVE IterEntries(_, _, _)
IterEntries(t, d, entries) ==
    IF entries = <<>> THEN {<<>>}
    ELSE LET entry == d \o <<Head(entries)>>
             first == IF Skipped(entry) THEN {<<>>}
                      ELSE IF IsDir(t, entry) THEN iter_finder_order_files(t, entry)
                      ELSE {<<entry>>}
         IN  {a \o b : a \in first, b \in IterEntries(t, d, Tail(entries))}
iter_finder_order_files(t, root) ==
    UNION {IterEntries(t, root, entries) : entries \in SortedOrders(Children(t, root))}


(***************************************************************************)
(* What the external converters and readers can do is an oracle: a         *)
(* function from the paths of a traversal to an outcome.  An outcome       *)
(* n >= 1 is a PDF of n pages written; Raises is the converter raising     *)
(* with nothing written; Silent (docx2pdf only) is the converter returning *)
(* without having written the file.                                        *)
(***************************************************************************)
Raises == 0
Silent == -1
ImageOutcomes == {Raises, 1}
TextOutcomes == {Raises} \cup (1..MaxPages)
WordOutcomes == {Raises, Silent} \cup (1..MaxPages)

\* get_pdf_page_count: 0 when the reader raises.
get_pdf_page_count(t, path) ==
    IF IsFile(t, path) /\ t.files[path].pages >= 0 THEN t.files[path].pages ELSE 0

(***************************************************************************)
(* backup_originals(root), DRY_RUN false: every file of the traversal is   *)
(* copied to the backup folder under its relative path unless something    *)
(* is already there.                                                       *)
(***************************************************************************)
\* A faulty variant of the function below: nothing is copied.
BackupNothing(t, order) == t
RECURSIVE BackupOverwrites(_, _)
\* A faulty variant of the function below: what the backup folder holds is
\* replaced.
BackupOverwrites(t, order) ==
    IF order = <<>> THEN t
    ELSE LET path == Head(order)
             dest == <<BACKUP_FOLDER_NAME>> \o path
         IN  BackupOverwrites(
                 WriteFile(Mkdirs(t, Parent(dest)), dest, t.files[path]),
                 Tail(order))
RECURSIVE backup_originals(_, _)
backup_originals(t, order) ==
    IF order = <<>> THEN t
    ELSE LET path == Head(order)
             dest == <<BACKUP_FOLDER_NAME>> \o path
         IN  IF Exists(t, dest) THEN backup_originals(t, Tail(order))
             ELSE backup_originals(
                      WriteFile(Mkdirs(t, Parent(dest)), dest, t.files[path]),
                      Tail(order))

(***************************************************************************)
(* The converters' target: path.with_suffix(".pdf"), and while that exists *)
(* path.with_name(f"{path.stem}{infix}{counter}.pdf") for counter 1, 2, ...*)
(***************************************************************************)
RECURSIVE NextFree(_, _, _, _)
NextFree(t, path, infix, counter) ==
    LET cand == WithName(path, Stem(NameOf(path)) \o infix \o ToDigits(counter) \o PDF_EXT)
    IN  IF Exists(t, cand) THEN NextFree(t, path, infix, counter + 1) ELSE cand
FreePdfPath(t, path, infix) ==
    IF Exists(t, WithSuffix(path, PDF_EXT)) THEN NextFree(t, path, infix, 1)
    ELSE WithSuffix(path, PDF_EXT)

(***************************************************************************)
(* convert_images_in_tree, convert_htmls_in_tree, convert_txts_in_tree:    *)
(* one loop, which differs (k) in the extensions, in the infix of the      *)
(* target name, in whether a failure is recorded (convert_html_to_pdf      *)
(* catches its own exception and returns None, so the tree loop records    *)
(* nothing) and in whether DRY_RUN lists the conversion (the image loop    *)
(* does; the other converters return None in DRY_RUN).                     *)
(* acc is [tree, conversions, errors].                                     *)
(***************************************************************************)
RECURSIVE ConvertLoop(_, _, _, _, _)
ConvertLoop(acc, order, k, dry, oracle) ==
    IF order = <<>> THEN acc
    ELSE LET path == Head(order)
             t    == acc.tree
             pdf  == FreePdfPath(t, path, k.infix)
             next(a) == ConvertLoop(a, Tail(order), k, dry, oracle)
         IN  IF Ext(path) \notin k.exts THEN next(acc)
             ELSE IF dry
                  THEN IF k.listsInDry
                       THEN next([acc EXCEPT !.conversions = Append(@, <<path, pdf>>)])
                       ELSE next(acc)
             ELSE IF oracle[path] = Raises
                  THEN IF k.logsFailure
                       THEN next([acc EXCEPT !.errors = Append(@, path)])
                       ELSE next(acc)
             ELSE next([tree |-> Unlink(WriteFile(t, pdf,
                                     Content(t.files[path].orig, "conv", oracle[path])), path),
                        conversions |-> Append(acc.conversions, <<path, pdf>>),
                        errors |-> acc.errors])
NoConversions(t) == [tree |-> t, conversions |-> <<>>, errors |-> <<>>]
convert_images_in_tree(t, order, dry, oracle) ==
    ConvertLoop(NoConversions(t), order,
                [exts |-> IMAGE_EXTS, infix |-> <<"_">>, logsFailure |-> TRUE,
                 listsInDry |-> TRUE], dry, oracle)
convert_htmls_in_tree(t, order, dry, oracle) ==
    ConvertLoop(NoConversions(t), order,
                [exts |-> HTML_EXTS, infix |-> <<"_", "h", "t", "m", "l", "_">>,
                 logsFailure |-> FALSE, listsInDry |-> FALSE], dry, oracle)
convert_txts_in_tree(t, order, dry, oracle) ==
    ConvertLoop(NoConversions(t), order,
                [exts |-> TEXT_EXTS, infix |-> <<"_", "t", "x", "t", "_">>,
                 logsFailure |-> TRUE, listsInDry |-> FALSE], dry, oracle)

(***************************************************************************)
(* convert_word_to_pdf(word_path), DRY_RUN false: the result is the tree   *)
(* and the returned path (<<>> for None).  The .docx is deleted whenever   *)
(* the target exists after the call, whoever wrote it.                     *)
(***************************************************************************)
convert_word_to_pdf(t, word_path, outcome) ==
    LET pdf_path == WithSuffix(word_path, PDF_EXT)
        written  == IF outcome >= 1
                    THEN WriteFile(t, pdf_path, Content(t.files[word_path].orig, "conv", outcome))
                    ELSE t
    IN  IF outcome = Raises THEN [tree |-> t, pdf |-> <<>>]
        ELSE IF Exists(written, pdf_path)
             THEN [tree |-> Unlink(written, word_path), pdf |-> pdf_path]
        ELSE [tree |-> t, pdf |-> <<>>]

\* convert_docx_in_tree (conversion-only mode); acc as in ConvertLoop.
RECURSIVE convert_docx_in_tree(_, _, _, _)
convert_docx_in_tree(acc, order, dry, oracle) ==
    IF order = <<>> THEN acc
    ELSE LET path == Head(order)
             pdf  == WithSuffix(path, PDF_EXT)
             res  == convert_word_to_pdf(acc.tree, path, oracle[path])
             next(a) == convert_docx_in_tree(a, Tail(order), dry, oracle)
         IN  IF Ext(path) \notin WORD_EXTS THEN next(acc)
             ELSE IF dry THEN next([acc EXCEPT !.conversions = Append(@, <<path, pdf>>)])
             ELSE IF res.pdf # <<>>
                  THEN next([tree |-> res.tree,
                             conversions |-> Append(acc.conversions, <<path, res.pdf>>),
                             errors |-> acc.errors])
             ELSE next([acc EXCEPT !.errors = Append(@, path)])

\* A faulty variant of the function below: nothing is reported.
NothingBlocks(order) == <<>>
\* find_blocking_files
find_blocking_files(order) == SelectSeq(order, LAMBDA path : Ext(path) \in BLOCKED_OTHER_EXTS)

(***************************************************************************)
(* plan_items(root): acc is [tree, items].  An item is [kind, pages, path] *)
(* (the code's "paths" dict holds one path, under the key of the kind).    *)
(* In DRY_RUN convert_word_to_pdf returns None at once.                    *)
(***************************************************************************)
\* A faulty variant of the function below: a Word file that could not be
\* converted gets no page.
ItemUnsized(kind, pages, path) ==
    [kind |-> kind, pages |-> IF kind = "word_no_pdf" THEN 0 ELSE pages, path |-> path]
Item(kind, pages, path) == [kind |-> kind, pages |-> pages, path |-> path]
RECURSIVE plan_items(_, _, _, _)
plan_items(acc, order, dry, oracle) ==
    IF order = <<>> THEN acc
    ELSE LET path   == Head(order)
             t      == acc.tree
             suffix == Ext(path)
             pages  == get_pdf_page_count(t, path)
             res    == IF dry THEN [tree |-> t, pdf |-> <<>>]
                       ELSE convert_word_to_pdf(t, path, oracle[path])
             cpages == get_pdf_page_count(res.tree, res.pdf)
             next(a) == plan_items(a, Tail(order), dry, oracle)
             add(it) == [acc EXCEPT !.items = Append(@, it)]
         IN  IF suffix = PDF_EXT
             THEN IF pages > 0 THEN next(add(Item("pdf", pages, path))) ELSE next(acc)
             ELSE IF suffix \in WORD_EXTS
             THEN IF res.pdf # <<>>
                  THEN next([tree |-> res.tree,
                             items |-> Append(acc.items,
                                 Item("pdf", IF cpages = 0 THEN 1 ELSE cpages, res.pdf))])
                  ELSE next(add(Item("word_no_pdf", 1, path)))
             ELSE IF suffix \in EXCEL_EXTS THEN next(add(Item("excel", 1, path)))
             ELSE IF suffix \in VIDEO_EXTS THEN next(add(Item("video", 1, path)))
             ELSE next(acc)

\* A faulty variant of the function below: the videos are moved to the front.
VideosFirst(items, videosAtEnd) ==
    IF ~videosAtEnd THEN items
    ELSE SelectSeq(items, LAMBDA it : it.kind = "video")
         \o SelectSeq(items, LAMBDA it : it.kind # "video")
\* reorder_items_for_videos
reorder_items_for_videos(items, videosAtEnd) ==
    IF ~videosAtEnd THEN items
    ELSE SelectSeq(items, LAMBDA it : it.kind # "video")
         \o SelectSeq(items, LAMBDA it : it.kind = "video")


(***************************************************************************)
(* make_bates_filename and build_renames.  The result carries the          *)
(* operations, the (start, end) of every item in order (the loop's         *)
(* locals), the counter after the loop, and whether the destinations       *)
(* collide (the code then raises SystemExit).                              *)
(***************************************************************************)
\* A faulty variant of the function below: with the original name kept, the
\* label is left out of the new name.
NameWithoutLabel(base, path, keepOriginalName) ==
    IF keepOriginalName
    THEN Stem(NameOf(path)) \o Suffix(NameOf(path))
    ELSE base \o Suffix(NameOf(path))
make_bates_filename(base, path, keepOriginalName) ==
    IF keepOriginalName
    THEN base \o <<" ", "-", " ">> \o Stem(NameOf(path)) \o Suffix(NameOf(path))
    ELSE base \o Suffix(NameOf(path))
\* The label text of one item: "<prefix> <start>" for one page, else with "-<end>".
ItemBase(prefix, digits, pages, start, end) ==
    IF pages = 1 THEN prefix \o <<" ">> \o Pad(start, digits)
    ELSE prefix \o <<" ">> \o Pad(start, digits) \o <<"-">> \o Pad(end, digits)
\* A faulty variant of the line below: the counter is not advanced past end.
CounterAtEnd(end) == end
\* counter = end + 1
NextCounter(end) == end + 1
RECURSIVE BuildLoop(_, _, _, _, _)
BuildLoop(acc, items, prefix, digits, keepOriginalName) ==
    IF items = <<>> THEN acc
    ELSE LET item  == Head(items)
             start == acc.counter
             end   == acc.counter + item.pages - 1
             base  == ItemBase(prefix, digits, item.pages, start, end)
             new_name == make_bates_filename(base, item.path, keepOriginalName)
         IN  BuildLoop([operations |-> Append(acc.operations,
                                          [src |-> item.path, dst |-> WithName(item.path, new_name)]),
                        ranges     |-> Append(acc.ranges, [start |-> start, end |-> end]),
                        counter    |-> NextCounter(end)],
                       Tail(items), prefix, digits, keepOriginalName)
\* A faulty variant of the test below: duplicates go unnoticed.
NoDuplicateCheck(operations) == FALSE
\* len(dests) != len(set(dests))
HasDuplicateDests(operations) ==
    \E i, j \in 1..Len(operations) : i < j /\ operations[i].dst = operations[j].dst
build_renames(items, prefix, digits, startCounter, keepOriginalName) ==
    LET r == BuildLoop([operations |-> <<>>, ranges |-> <<>>, counter |-> startCounter],
                       items, prefix, digits, keepOriginalName)
    IN  [operations |-> r.operations, ranges |-> r.ranges, counter |-> r.counter,
         conflict |-> HasDuplicateDests(r.operations)]


(***************************************************************************)
(* reformat_pdf_to_letter_in_place(pdf_path): the reader raises on an      *)
(* unreadable or missing file; the new pages are written to                *)
(* pdf_path.with_suffix(".tmp.pdf"), whatever is there, and os.replace     *)
(* moves that file over the original.  Result: [tree, raised].             *)
(***************************************************************************)
TMP_PDF == <<".", "t", "m", "p">> \o PDF_EXT
reformat_pdf_to_letter_in_place(t, pdf_path) ==
    LET temp_path == WithSuffix(pdf_path, TMP_PDF)
        page      == [t.files[pdf_path] EXCEPT !.letter = TRUE]
    IN  IF ~IsFile(t, pdf_path) \/ t.files[pdf_path].pages < 0 \/ IsDir(t, temp_path)
        THEN [tree |-> t, raised |-> TRUE]
        ELSE [tree |-> MoveFile(WriteFile(t, temp_path, page), temp_path, pdf_path),
              raised |-> FALSE]

\* The reformat loop of conversion-only mode; acc is [tree, errors].
RECURSIVE ReformatLoop(_, _)
ReformatLoop(acc, pdfs) ==
    IF pdfs = <<>> THEN acc
    ELSE LET r == reformat_pdf_to_letter_in_place(acc.tree, Head(pdfs))
         IN  ReformatLoop([tree   |-> r.tree,
                           errors |-> IF r.raised THEN Append(acc.errors, Head(pdfs))
                                      ELSE acc.errors],
                          Tail(pdfs))

(***************************************************************************)
(* apply_bates_to_pdf(pdf_path), DRY_RUN false.  status is "skipped" (the  *)
(* stem does not match), "raised" (the reader raised: an Exception),       *)
(* "exit" (page count mismatch: SystemExit) or "stamped".                  *)
(***************************************************************************)
ExpectedPages(m) == IF m.end # <<>> THEN ToInt(m.end) - ToInt(m.start) + 1 ELSE 1
\* A faulty variant of the line below: the pages are counted from 1.
PageNumberFromOne(start, i) == start + i + 1
\* The label number of page i, counted from 0.
PageNumber(start, i) == start + i
apply_bates_to_pdf(t, pdf_path) ==
    LET stamp(m) ==
          LET start     == ToInt(m.start)
              num_pages == t.files[pdf_path].pages
              stamped   == [t.files[pdf_path] EXCEPT
                               !.stamps = [i \in 1..num_pages |-> PageNumber(start, i - 1)]]
          IN  IF ~m.ok THEN [tree |-> t, status |-> "skipped"]
              ELSE IF ~IsFile(t, pdf_path) \/ num_pages < 0
                   THEN [tree |-> t, status |-> "raised"]
              ELSE IF ExpectedPages(m) # num_pages THEN [tree |-> t, status |-> "exit"]
              ELSE [tree |-> WriteFile(t, pdf_path, stamped), status |-> "stamped"]
    IN  stamp(BATES_NAME_PATTERN(Stem(NameOf(pdf_path))))
\* A faulty variant of the handler below: "except BaseException" would log
\* the SystemExit as well.
CatchAll(status) == IF status \in {"raised", "exit"} THEN "logged" ELSE "continues"
\* What the try/except around apply_bates_to_pdf does with each status:
\* "except Exception" catches the reader's exception and not SystemExit.
StampHandler(status) ==
    IF status = "raised" THEN "logged"
    ELSE IF status = "exit" THEN "propagates"
    ELSE "continues"

(***************************************************************************)
(* collect_folder_bates_ranges(root): an ordered map, as a sequence of     *)
(* [folder, start, end] in insertion order.                                *)
(***************************************************************************)
MapHas(map, folder) == \E i \in 1..Len(map) : map[i].folder = folder
MapGet(map, folder) == map[CHOOSE i \in 1..Len(map) : map[i].folder = folder]
\* A faulty variant of the function below: the range's start is never lowered.
KeepFirst(a, b) == a
Min(a, b) == IF a <= b THEN a ELSE b
Max(a, b) == IF a >= b THEN a ELSE b
Expand(map, folder, start, end) ==
    IF MapHas(map, folder)
    THEN [i \in 1..Len(map) |->
            IF map[i].folder = folder
            THEN [folder |-> folder, start |-> Min(map[i].start, start),
                  end |-> Max(map[i].end, end)]
            ELSE map[i]]
    ELSE Append(map, [folder |-> folder, start |-> start, end |-> end])
RECURSIVE WalkUp(_, _, _, _)
\* The while loop: from the file's parent up to the root, inclusive.
WalkUp(map, parent, start, end) ==
    IF BACKUP_FOLDER_NAME \in Range(parent) THEN map
    ELSE IF parent = <<>> THEN Expand(map, parent, start, end)
    ELSE WalkUp(Expand(map, parent, start, end), Parent(parent), start, end)
RECURSIVE CollectLoop(_, _)
CollectLoop(map, order) ==
    IF order = <<>> THEN map
    ELSE LET path == Head(order)
             walk(m) ==
               IF ~m.ok THEN map
               ELSE WalkUp(map, Parent(path), ToInt(m.start),
                           IF m.end # <<>> THEN ToInt(m.end) ELSE ToInt(m.start))
         IN  CollectLoop(walk(BATES_NAME_PATTERN(Stem(NameOf(path)))), Tail(order))
collect_folder_bates_ranges(order) == CollectLoop(<<>>, order)

(***************************************************************************)
(* rename_folders_with_bates(root, folder_ranges).  sorted(..., key=depth, *)
(* reverse=True) is stable: folders of one depth keep the map's order.     *)
(* Result: [tree, renames, log].                                           *)
(***************************************************************************)
RECURSIVE ByDepthFrom(_, _)
ByDepthFrom(map, depth) ==
    IF depth < 0 THEN <<>>
    ELSE SelectSeq(map, LAMBDA e : Len(e.folder) = depth) \o ByDepthFrom(map, depth - 1)
MaxDepth(map) ==
    IF map = <<>> THEN 0
    ELSE CHOOSE d \in {Len(map[i].folder) : i \in 1..Len(map)} :
            \A i \in 1..Len(map) : Len(map[i].folder) <= d
\* A faulty variant of the function below: the folders are processed in the
\* order in which the range map holds them.
InsertionOrder(map) == map
DeepestFirst(map) == ByDepthFrom(map, MaxDepth(map))
FolderBase(prefix, digits, start, end) ==
    IF start = end THEN prefix \o <<" ">> \o Pad(start, digits)
    ELSE prefix \o <<" ">> \o Pad(start, digits) \o <<"-">> \o Pad(end, digits)
\* A faulty variant of the test below: the target is never looked at.
TargetIgnored(t, dst) == FALSE
\* dst.exists()
TargetExists(t, dst) == Exists(t, dst)
\* One entry of the log per folder of the loop: the folder and its range, the
\* target computed for it (<<>> when the loop skips the folder before it
\* computes one), whether the folder and the target were on disk at that
\* moment, and whether the folder was renamed.
RECURSIVE FolderLoop(_, _, _, _, _)
FolderLoop(acc, todo, prefix, digits, keepFolderName) ==
    IF todo = <<>> THEN acc
    ELSE LET folder == Head(todo).folder
             start  == Head(todo).start
             end    == Head(todo).end
             t      == acc.tree
             step(name, new_name) ==
               LET skip == \/ folder = <<>>
                           \/ BACKUP_FOLDER_NAME \in Range(folder)
                           \/ name = <<>> \/ Hidden(name)
                           \/ start <= 0 \/ end < start
                           \/ new_name = name
                   dst  == IF skip THEN <<>> ELSE WithName(folder, new_name)
                   \* folder.rename(dst) raises when the folder is gone: caught.
                   renamed == ~skip /\ ~TargetExists(t, dst) /\ IsDir(t, folder)
               IN  [tree    |-> IF renamed THEN MoveDir(t, folder, dst) ELSE t,
                    renames |-> IF renamed THEN Append(acc.renames, <<folder, dst>>)
                                ELSE acc.renames,
                    log     |-> Append(acc.log,
                                  [folder |-> folder, start |-> start, end |-> end,
                                   dst |-> dst, existed |-> IsDir(t, folder),
                                   occupied |-> ~skip /\ Exists(t, dst),
                                   renamed |-> renamed])]
             named(name) ==
               step(name, IF keepFolderName
                          THEN FolderBase(prefix, digits, start, end) \o <<" ", "-", " ">> \o name
                          ELSE FolderBase(prefix, digits, start, end))
         IN  FolderLoop(named(IF folder = <<>> THEN <<>> ELSE NameOf(folder)),
                        Tail(todo), prefix, digits, keepFolderName)
rename_folders_with_bates(t, folder_ranges_, prefix, digits, keepFolderName) ==
    FolderLoop([tree |-> t, renames |-> <<>>, log |-> <<>>], DeepestFirst(folder_ranges_),
               prefix, digits, keepFolderName)

(***************************************************************************)
(* create_combined_final_pdf(root), DRY_RUN false.  Result: [tree, out,    *)
(* raised]; out is <<>> for None.                                          *)
(***************************************************************************)
\* A faulty variant of the function below: the list stays in traversal order.
KeepOrder(infos) == infos
RECURSIVE SortByStart(_)
\* list.sort(key=start): stable.
SortByStart(infos) ==
    IF infos = <<>> THEN <<>>
    ELSE LET i == CHOOSE i \in 1..Len(infos) :
                    /\ \A j \in 1..Len(infos) : infos[i].s <= infos[j].s
                    /\ \A j \in 1..(i - 1) : infos[j].s > infos[i].s
         IN  <<infos[i]>> \o SortByStart(SubSeq(infos, 1, i - 1) \o SubSeq(infos, i + 1, Len(infos)))
RECURSIVE PdfInfos(_)
PdfInfos(order) ==
    IF order = <<>> THEN <<>>
    ELSE LET path == Head(order)
             info(m) == IF Ext(path) = PDF_EXT /\ m.ok
                        THEN <<[s |-> ToInt(m.start), path |-> path]>>
                        ELSE <<>>
         IN  info(BATES_NAME_PATTERN(Stem(NameOf(path)))) \o PdfInfos(Tail(order))
RECURSIVE Concatenate(_, _)
\* The writer's pages: [pages, stamps, parts]; an unreadable file is skipped.
Concatenate(t, infos) ==
    IF infos = <<>> THEN [pages |-> 0, stamps |-> <<>>, parts |-> <<>>]
    ELSE LET c    == t.files[Head(infos).path]
             rest == Concatenate(t, Tail(infos))
         IN  IF c.pages < 0 THEN rest
             ELSE [pages  |-> c.pages + rest.pages,
                   stamps |-> c.stamps \o rest.stamps,
                   parts  |-> <<Head(infos).path>> \o rest.parts]
CombinedName(prefix, digits, start, end) ==
    prefix \o <<" ">> \o Pad(start, digits) \o <<"-", " ">>
        \o prefix \o <<" ">> \o Pad(end, digits) \o PDF_EXT
create_combined_final_pdf(t, order, prefix, digits) ==
    LET none == [tree |-> t, out |-> <<>>, raised |-> FALSE, parts |-> <<>>]
        write(out_path, all) ==
          IF IsDir(t, out_path) THEN [none EXCEPT !.raised = TRUE]
          ELSE [tree |-> WriteFile(t, out_path,
                            [Content(<<>>, "combined", all.pages) EXCEPT !.stamps = all.stamps]),
                out |-> out_path, raised |-> FALSE, parts |-> all.parts]
        merge(rootRange, infos) ==
          IF rootRange.start <= 0 \/ rootRange.end < rootRange.start THEN none
          ELSE IF infos = <<>> THEN none
          ELSE write(<<CombinedName(prefix, digits, rootRange.start, rootRange.end)>>,
                     Concatenate(t, infos))
        combine(folder_ranges) ==
          IF ~MapHas(folder_ranges, <<>>) THEN none
          ELSE merge(MapGet(folder_ranges, <<>>), SortByStart(PdfInfos(order)))
    IN  combine(collect_folder_bates_ranges(order))


(***************************************************************************)
(* The state.  The configuration is the module's global variables, which   *)
(* run_pipeline overwrites; tree is the folder being processed; the rest   *)
(* are run_pipeline's locals and the position of the run.                  *)
(***************************************************************************)
VARIABLES
    args,        \* the arguments of the run_pipeline call
    PREFIX, DIGITS, START_COUNTER, DRY_RUN, BACKUP_BEFORE_BATES,
    KEEP_ORIGINAL_NAME, RENAME_FOLDERS, KEEP_FOLDER_NAME,
    NUMBER_VIDEOS_AT_END, COMBINE_FINAL, CONVERSION_ONLY,
    tree,        \* the files and directories below the root folder
    pc,          \* where the run is
    outcome,     \* "none", "returned", "SystemExit" or "Exception"
    items,       \* plan_items' result, reordered
    operations,  \* build_renames' operations
    ranges,      \* the (start, end) build_renames gave each item
    counter,     \* build_renames' counter after its loop
    temp_map,    \* apply_renames' temp_map, in insertion order
    pdfs,        \* apply_bates_to_all_pdfs' list
    idx,         \* the index of the running loop
    renamed_list, skipped_list, error_list, total_files, total_pages,
    folder_ranges, \* collect_folder_bates_ranges' result (line 1159)
    tree0,       \* history: the tree when run_pipeline was called
    called,      \* history: the functions run_pipeline has entered
    clobbered,   \* history: the paths a rename of apply_renames replaced
    planned,     \* history: plan_items' result, before the reordering
    folder_log,  \* history: what rename_folders_with_bates met at each folder
    combined,    \* history: what create_combined_final_pdf wrote, and from what
    preview,     \* history: the plan the preceding dry run reported
    visited,     \* the listings of iter_finder_order_files called on its own
    run_button,  \* the state of the GUI's Run button: "normal" or "disabled"
    workers,     \* the worker threads the GUI has started that have not ended
    posted,      \* the callback a worker has handed to the main loop with after()
    clicks       \* the runs started from the GUI so far

config == <<PREFIX, DIGITS, START_COUNTER, DRY_RUN, BACKUP_BEFORE_BATES,
            KEEP_ORIGINAL_NAME, RENAME_FOLDERS, KEEP_FOLDER_NAME,
            NUMBER_VIDEOS_AT_END, COMBINE_FINAL, CONVERSION_ONLY>>
plan == <<items, operations, ranges, counter>>
lists == <<renamed_list, skipped_list, error_list, total_files, total_pages>>
folders == <<folder_ranges, folder_log>>
direct == <<preview, visited>>
gui == <<run_button, workers, posted, clicks>>
vars == <<args, config, tree, pc, outcome, plan, temp_map, pdfs, idx, lists,
          tree0, called, clobbered, planned, folders, combined, direct, gui>>

(***************************************************************************)
(* The trees and configurations a run starts from.                         *)
(***************************************************************************)
N(a) == <<a>>
a_pdf  == <<"a">> \o PDF_EXT
b_pdf  == <<"b">> \o PDF_EXT
b_docx == <<"b", ".", "d", "o", "c", "x">>
c_jpg  == <<"c", ".", "j", "p", "g">>
d_doc  == <<"d", ".", "d", "o", "c">>
m_msg  == <<"m", ".", "m", "s", "g">>
v_mp4  == <<"v", ".", "m", "p", "4">>
z_pdf  == <<"z">> \o PDF_EXT
C_1_pdf == <<"C", " ", "1">> \o PDF_EXT
\* The files a tree is drawn from: a path and the page count of its content.
PoolFiles ==
    {[path |-> <<a_pdf>>, pages |-> n] : n \in 1..MaxPages}
    \cup {[path |-> <<C_1_pdf>>, pages |-> n] : n \in {-1, 0}}
    \cup {[path |-> <<b_pdf>>, pages |-> 1], [path |-> <<<<"s">>, z_pdf>>, pages |-> 1]}
    \cup {[path |-> <<n>>, pages |-> -1] : n \in {b_docx, c_jpg, d_doc, m_msg, v_mp4}}
TreeOf(fileSet) ==
    [files |-> [p \in {f.path : f \in fileSet} |->
                   Content(p, "orig", (CHOOSE f \in fileSet : f.path = p).pages)],
     dirs  |-> UNION {Ancestors(Parent(f.path)) : f \in fileSet}]
Trees ==
    {TreeOf(fs) : fs \in {x \in SUBSET PoolFiles :
        /\ Cardinality(x) \in 1..MaxFiles
        /\ \A f, g \in x : f.path = g.path => f = g}}
Prefixes == {<<"C">>}
DigitChoices == {1}

(***************************************************************************)
(* The calls: the dry runs with every combination of the toggles, and the  *)
(* apply runs with the toggles the mode reads; a toggle an apply run never *)
(* reads is left at its default (conversion-only mode reads none of the    *)
(* renaming toggles, KEEP_FOLDER_NAME is read only when folders are        *)
(* renamed).                                                               *)
(***************************************************************************)
AllCalls ==
    [prefix : Prefixes, digits : DigitChoices, start_counter : 1..MaxStart,
     dry_run : BOOLEAN, backup_before_bates : BOOLEAN, keep_original_name : BOOLEAN,
     rename_folders : BOOLEAN, keep_original_folder_name : BOOLEAN,
     number_videos_at_end : BOOLEAN, combine_final : BOOLEAN, conversion_only : BOOLEAN]
Calls ==
    {c \in AllCalls :
        \/ c.dry_run
        \/ /\ c.conversion_only =>
                 (/\ c.keep_original_name /\ c.number_videos_at_end
                  /\ ~c.rename_folders /\ ~c.combine_final)
           /\ ~c.rename_folders => c.keep_original_folder_name}

\* The GUI has started nothing: the Run button is enabled.
NoGui == run_button = "normal" /\ workers = 0 /\ posted = "none" /\ clicks = 0
NotCombined == [out |-> <<>>, parts |-> <<>>]
NoPreview == [reported |-> FALSE, operations |-> <<>>, ranges |-> <<>>]
Idle ==
    /\ pc = "idle" /\ outcome = "none"
    /\ items = <<>> /\ operations = <<>> /\ ranges = <<>> /\ counter = 0
    /\ temp_map = <<>> /\ pdfs = <<>> /\ idx = 0
    /\ renamed_list = <<>> /\ skipped_list = <<>> /\ error_list = <<>>
    /\ total_files = 0 /\ total_pages = 0
    /\ called = {} /\ clobbered = {}
    /\ planned = <<>> /\ folder_ranges = <<>> /\ folder_log = <<>>
    /\ combined = NotCombined
\* The values of the globals when the module is loaded (src/core.py 45-75).
Defaults ==
    /\ PREFIX = <<"C", "F">> /\ DIGITS = 4 /\ START_COUNTER = 1 /\ DRY_RUN = TRUE
    /\ BACKUP_BEFORE_BATES = TRUE /\ KEEP_ORIGINAL_NAME = TRUE
    /\ RENAME_FOLDERS = FALSE /\ KEEP_FOLDER_NAME = TRUE
    /\ NUMBER_VIDEOS_AT_END = TRUE /\ COMBINE_FINAL = FALSE
    /\ CONVERSION_ONLY = FALSE
Init ==
    /\ Defaults
    /\ Idle
    /\ args \in Calls
    /\ tree \in Trees
    /\ tree0 = tree
    /\ preview = NoPreview
    /\ visited = <<>> /\ NoGui
(***************************************************************************)
(* run_pipeline, one action per step of it.                                *)
(***************************************************************************)
Root == <<>>
OracleFor(order, exts, outcomes) == [{p \in Range(order) : Ext(p) \in exts} -> outcomes]
Conversions(pairs) ==
    [i \in 1..Len(pairs) |-> [kind |-> "conversion", src |-> pairs[i][1], dst |-> pairs[i][2]]]
Errors(what, paths) == [i \in 1..Len(paths) |-> [what |-> what, path |-> paths[i]]]
\* return {...}
Return(files, pages, renamed, skipped, errors) ==
    /\ outcome' = "returned"
    /\ pc' = "done"
    /\ total_files' = files
    /\ total_pages' = pages
    /\ renamed_list' = renamed
    /\ skipped_list' = skipped
    /\ error_list' = errors
\* An exception or SystemExit leaves run_pipeline.
Leave(how) ==
    /\ outcome' = how
    /\ pc' = "done"

\* Lines 1000-1028: the arguments become the globals.
RunPipeline ==
    /\ pc = "idle"
    /\ PREFIX' = args.prefix
    /\ DIGITS' = args.digits
    /\ START_COUNTER' = args.start_counter
    /\ DRY_RUN' = args.dry_run
    /\ BACKUP_BEFORE_BATES' = args.backup_before_bates
    /\ KEEP_ORIGINAL_NAME' = args.keep_original_name
    /\ RENAME_FOLDERS' = args.rename_folders
    /\ KEEP_FOLDER_NAME' = args.keep_original_folder_name
    /\ NUMBER_VIDEOS_AT_END' = args.number_videos_at_end
    /\ COMBINE_FINAL' = args.combine_final
    /\ CONVERSION_ONLY' = args.conversion_only
    /\ tree0' = tree
    /\ pc' = "backup"
    /\ UNCHANGED <<args, gui, direct, planned, folders, combined, tree, outcome, plan, temp_map, pdfs, idx, lists, called, clobbered>>

\* A faulty variant of the test below: DRY_RUN is not consulted.
BackupRequested(backup, dry) == backup
\* Lines 1030-1032.
BackupEnabled(backup, dry) == backup /\ ~dry
Backup ==
    /\ pc = "backup"
    /\ IF BackupEnabled(BACKUP_BEFORE_BATES, DRY_RUN)
       THEN /\ \E order \in iter_finder_order_files(tree, Root) :
                  tree' = backup_originals(tree, order)
            /\ called' = called \cup {"backup_originals"}
       ELSE UNCHANGED <<tree, called>>
    /\ pc' = "images"
    /\ UNCHANGED <<args, gui, direct, planned, folders, combined, config, outcome, plan, temp_map, pdfs, idx, lists, tree0, clobbered>>

\* Lines 1041 and 1091.
ConvertImages ==
    /\ pc = "images"
    /\ \E order \in iter_finder_order_files(tree, Root) :
       \E oracle \in OracleFor(order, IMAGE_EXTS, ImageOutcomes) :
       \E r \in {convert_images_in_tree(tree, order, DRY_RUN, oracle)} :
              /\ tree' = r.tree
              /\ renamed_list' = renamed_list \o Conversions(r.conversions)
              /\ error_list' = error_list \o Errors("image", r.errors)
    /\ pc' = "htmls"
    /\ UNCHANGED <<args, gui, direct, planned, folders, combined, config, outcome, plan, temp_map, pdfs, idx, skipped_list,
                   total_files, total_pages, tree0, called, clobbered>>

\* Lines 1042 and 1092.
ConvertHtmls ==
    /\ pc = "htmls"
    /\ \E order \in iter_finder_order_files(tree, Root) :
       \E oracle \in OracleFor(order, HTML_EXTS, TextOutcomes) :
       \E r \in {convert_htmls_in_tree(tree, order, DRY_RUN, oracle)} :
              /\ tree' = r.tree
              /\ renamed_list' = renamed_list \o Conversions(r.conversions)
              /\ error_list' = error_list \o Errors("html", r.errors)
    /\ pc' = "txts"
    /\ UNCHANGED <<args, gui, direct, planned, folders, combined, config, outcome, plan, temp_map, pdfs, idx, skipped_list,
                   total_files, total_pages, tree0, called, clobbered>>

\* Lines 1043 and 1093; then the branch of line 1035.
ConvertTxts ==
    /\ pc = "txts"
    /\ \E order \in iter_finder_order_files(tree, Root) :
       \E oracle \in OracleFor(order, TEXT_EXTS, TextOutcomes) :
       \E r \in {convert_txts_in_tree(tree, order, DRY_RUN, oracle)} :
              /\ tree' = r.tree
              /\ renamed_list' = renamed_list \o Conversions(r.conversions)
              /\ error_list' = error_list \o Errors("txt", r.errors)
    /\ pc' = IF CONVERSION_ONLY THEN "docx" ELSE "blocking"
    /\ UNCHANGED <<args, gui, direct, planned, folders, combined, config, outcome, plan, temp_map, pdfs, idx, skipped_list,
                   total_files, total_pages, tree0, called, clobbered>>

\* Line 1044 (conversion-only mode).
ConvertDocx ==
    /\ pc = "docx"
    /\ \E order \in iter_finder_order_files(tree, Root) :
       \E oracle \in OracleFor(order, WORD_EXTS, WordOutcomes) :
       \E r \in {convert_docx_in_tree(NoConversions(tree), order, DRY_RUN, oracle)} :
              /\ tree' = r.tree
              /\ renamed_list' = renamed_list \o Conversions(r.conversions)
              /\ error_list' = error_list \o Errors("docx", r.errors)
    /\ pc' = "reformat_only"
    /\ UNCHANGED <<args, gui, direct, planned, folders, combined, config, outcome, plan, temp_map, pdfs, idx, skipped_list,
                   total_files, total_pages, tree0, called, clobbered>>

\* Lines 1056-1086 (conversion-only mode): reformat every PDF and return.
IsPdf(path) == Ext(path) = PDF_EXT
ReformatOnly ==
    /\ pc = "reformat_only"
    /\ \E order \in iter_finder_order_files(tree, Root) :
       \E list \in {SelectSeq(order, IsPdf)} :
       \E r \in {IF DRY_RUN THEN [tree |-> tree, errors |-> <<>>]
                 ELSE ReformatLoop([tree |-> tree, errors |-> <<>>], list)} :
              /\ tree' = r.tree
              /\ Return(Len(list), 0, renamed_list, <<>>,
                        error_list \o Errors("reformat", r.errors))
    /\ UNCHANGED <<args, gui, direct, planned, folders, combined, config, plan, temp_map, pdfs, idx, tree0, called, clobbered>>

\* Lines 1095-1108.
FindBlocking ==
    /\ pc = "blocking"
    /\ called' = called \cup {"find_blocking_files"}
    /\ \E order \in iter_finder_order_files(tree, Root) :
       \E blocking \in {find_blocking_files(order)} :
              IF blocking # <<>>
              THEN Return(0, 0, renamed_list, blocking,
                          <<[what |-> "blocked", path |-> Root]>> \o error_list)
              ELSE /\ pc' = "plan"
                   /\ UNCHANGED <<outcome, lists>>
    /\ UNCHANGED <<args, gui, direct, planned, folders, combined, config, tree, plan, temp_map, pdfs, idx, tree0, clobbered>>

\* Lines 1110-1121.
PlanItems ==
    /\ pc = "plan"
    /\ called' = called \cup {"plan_items"}
    /\ \E order \in iter_finder_order_files(tree, Root) :
       \E oracle \in OracleFor(order, WORD_EXTS, WordOutcomes) :
       \E r \in {plan_items([tree |-> tree, items |-> <<>>], order, DRY_RUN, oracle)} :
              /\ tree' = r.tree
              /\ items' = r.items
              /\ planned' = r.items
              /\ IF r.items = <<>>
                 THEN Return(0, 0, renamed_list, <<>>,
                             <<[what |-> "no eligible files", path |-> Root]>> \o error_list)
                 ELSE /\ pc' = "build"
                      /\ UNCHANGED <<outcome, lists>>
    /\ UNCHANGED <<args, gui, direct, folders, combined, config, operations, ranges, counter,
                   temp_map, pdfs, idx, tree0, clobbered>>


\* Lines 1123-1153: reorder, build_renames, and in DRY_RUN the preview and return.
\* operations, ranges and counter are build_renames' locals, kept also when it
\* raises SystemExit on colliding destinations.
FileRenames(ops) ==
    [i \in 1..Len(ops) |-> [kind |-> "file", src |-> ops[i].src, dst |-> ops[i].dst]]
BuildRenames ==
    /\ pc = "build"
    /\ called' = called \cup {"build_renames"}
    /\ \E ordered \in {reorder_items_for_videos(items, NUMBER_VIDEOS_AT_END)} :
       \E r \in {build_renames(ordered, PREFIX, DIGITS, START_COUNTER, KEEP_ORIGINAL_NAME)} :
           /\ items' = ordered
           /\ operations' = r.operations
           /\ ranges' = r.ranges
           /\ counter' = r.counter
           /\ IF r.conflict
              THEN /\ Leave("SystemExit")
                   /\ UNCHANGED <<lists, idx>>
              ELSE IF DRY_RUN
              THEN /\ Return(Len(ordered), 0, renamed_list \o FileRenames(r.operations),
                             <<>>, error_list)
                   /\ UNCHANGED idx
              ELSE /\ pc' = "rename1"
                   /\ idx' = 1
                   /\ renamed_list' = renamed_list \o FileRenames(r.operations)
                   /\ total_files' = Len(ordered)
                   /\ UNCHANGED <<outcome, skipped_list, error_list, total_pages>>
    /\ UNCHANGED <<args, gui, direct, planned, folders, combined, config, tree, temp_map, pdfs, tree0, clobbered>>

\* apply_renames, step 1 (lines 572-578), one operation per step.  The uuid of
\* the temporary name is unique; the operation's index stands for it.
TMP_PREFIX == <<"_", "_", "t", "m", "p", "_", "_">>
TmpName(i, name) == TMP_PREFIX \o ToDigits(i) \o <<"_", "_">> \o name
\* src == dst or not src.exists(): the operation is left out.
LeftOut(t, op) == op.src = op.dst \/ ~IsFile(t, op.src)
RenameToTemp ==
    /\ pc = "rename1"
    /\ called' = called \cup {"apply_renames"}
    /\ \E op \in {operations[idx]} :
       \E tmp \in {WithName(op.src, TmpName(idx, NameOf(op.src)))} :
       \E map \in {IF LeftOut(tree, op) THEN temp_map
                   ELSE Append(temp_map, [src |-> op.src, dst |-> op.dst, tmp |-> tmp])} :
           /\ tree' = IF LeftOut(tree, op) THEN tree ELSE MoveFile(tree, op.src, tmp)
           /\ temp_map' = map
           /\ IF idx < Len(operations)
              THEN idx' = idx + 1 /\ pc' = "rename1"
              ELSE idx' = 1 /\ pc' = IF map = <<>> THEN "folders" ELSE "rename2"
    /\ UNCHANGED <<args, gui, direct, planned, folders, combined, config, outcome, plan, pdfs, lists, tree0, clobbered>>

\* apply_renames, step 2 (lines 581-583).  os.rename onto an existing file
\* replaces it on POSIX and raises FileExistsError on Windows; onto a directory
\* it raises on both.
RenameToFinal ==
    /\ pc = "rename2"
    /\ LET e    == temp_map[idx]
           t    == Mkdirs(tree, Parent(e.dst))
           done == /\ tree' = MoveFile(t, e.tmp, e.dst)
                   /\ IF idx < Len(temp_map)
                      THEN idx' = idx + 1 /\ pc' = "rename2"
                      ELSE idx' = 1 /\ pc' = "folders"
                   /\ UNCHANGED outcome
           fail == /\ Leave("Exception")
                   /\ UNCHANGED <<tree, idx, clobbered>>
       IN  IF IsDir(tree, e.dst) THEN fail
           ELSE IF IsFile(tree, e.dst)
                THEN \E replaces \in BOOLEAN :
                        IF replaces THEN done /\ clobbered' = clobbered \cup {e.dst} ELSE fail
           ELSE done /\ UNCHANGED clobbered
    /\ UNCHANGED <<args, gui, direct, planned, folders, combined, config, plan, temp_map, pdfs, lists, tree0, called>>

\* Lines 1157-1161.
FolderRenames(pairs) ==
    [i \in 1..Len(pairs) |-> [kind |-> "folder", src |-> pairs[i][1], dst |-> pairs[i][2]]]
RenameFolders ==
    /\ pc = "folders"
    /\ IF RENAME_FOLDERS
       THEN \E order \in iter_finder_order_files(tree, Root) :
            \E map \in {collect_folder_bates_ranges(order)} :
            \E r \in {rename_folders_with_bates(tree, map, PREFIX, DIGITS, KEEP_FOLDER_NAME)} :
                   /\ folder_ranges' = map
                   /\ folder_log' = r.log
                   /\ tree' = r.tree
                   /\ renamed_list' = renamed_list \o FolderRenames(r.renames)
       ELSE UNCHANGED <<tree, renamed_list, folders>>
    /\ pc' = "list_pdfs"
    /\ UNCHANGED <<args, gui, direct, planned, combined, config, outcome, plan, temp_map, pdfs, idx, skipped_list, error_list,
                   total_files, total_pages, tree0, called, clobbered>>

\* apply_bates_to_all_pdfs, lines 756-767.
ListPdfs ==
    /\ pc = "list_pdfs"
    /\ called' = called \cup {"apply_bates_to_all_pdfs"}
    /\ \E order \in iter_finder_order_files(tree, Root) :
          /\ pdfs' = SelectSeq(order, IsPdf)
          /\ pc' = IF pdfs' = <<>> THEN "combine" ELSE "reformat"
    /\ idx' = 1
    /\ UNCHANGED <<args, gui, direct, planned, folders, combined, config, tree, outcome, plan, temp_map, lists, tree0, clobbered>>

\* apply_bates_to_all_pdfs, lines 774-780, one PDF per step.
ReformatPdf ==
    /\ pc = "reformat"
    /\ \E r \in {reformat_pdf_to_letter_in_place(tree, pdfs[idx])} :
           /\ tree' = r.tree
           /\ error_list' = IF r.raised THEN error_list \o Errors("reformat", <<pdfs[idx]>>)
                            ELSE error_list
    /\ IF idx < Len(pdfs)
       THEN idx' = idx + 1 /\ pc' = "reformat"
       ELSE idx' = 1 /\ pc' = "stamp"
    /\ UNCHANGED <<args, gui, direct, planned, folders, combined, config, outcome, plan, temp_map, pdfs, renamed_list, skipped_list,
                   total_files, total_pages, tree0, called, clobbered>>

\* apply_bates_to_all_pdfs, lines 785-797, one PDF per step.
Readable(t, path) == IsFile(t, path) /\ t.files[path].pages >= 0
StampPdf ==
    /\ pc = "stamp"
    /\ \E pdf \in {pdfs[idx]} :
       \E r \in {apply_bates_to_pdf(tree, pdf)} :
       \E h \in {StampHandler(r.status)} :
           /\ tree' = r.tree
           /\ total_pages' = IF Readable(tree, pdf) THEN total_pages + tree.files[pdf].pages
                             ELSE total_pages
           /\ error_list' = IF h = "logged" THEN error_list \o Errors("stamp", <<pdf>>)
                            ELSE error_list
           /\ IF h = "propagates"
              THEN Leave("SystemExit") /\ UNCHANGED idx
              ELSE /\ UNCHANGED outcome
                   /\ IF idx < Len(pdfs)
                      THEN idx' = idx + 1 /\ pc' = "stamp"
                      ELSE idx' = 1 /\ pc' = "combine"
    /\ UNCHANGED <<args, gui, direct, planned, folders, combined, config, plan, temp_map, pdfs, renamed_list, skipped_list,
                   total_files, tree0, called, clobbered>>

\* Lines 1167-1180.
Combine ==
    /\ pc = "combine"
    /\ IF COMBINE_FINAL
       THEN \E order \in iter_finder_order_files(tree, Root) :
            \E r \in {create_combined_final_pdf(tree, order, PREFIX, DIGITS)} :
                   IF r.raised
                   THEN Leave("Exception") /\ UNCHANGED <<tree, lists, combined>>
                   ELSE /\ tree' = r.tree
                        /\ combined' = [out |-> r.out, parts |-> r.parts]
                        /\ Return(total_files, total_pages,
                                  IF r.out = <<>> THEN renamed_list
                                  ELSE Append(renamed_list,
                                           [kind |-> "COMBINED", src |-> Root, dst |-> r.out]),
                                  skipped_list, error_list)
       ELSE /\ Return(total_files, total_pages, renamed_list, skipped_list, error_list)
            /\ UNCHANGED <<tree, combined>>
    /\ UNCHANGED <<args, gui, direct, planned, folders, config, plan, temp_map, pdfs, idx, tree0, called, clobbered>>

Next ==
    \/ RunPipeline
    \/ Backup
    \/ ConvertImages
    \/ ConvertHtmls
    \/ ConvertTxts
    \/ ConvertDocx
    \/ ReformatOnly
    \/ FindBlocking
    \/ PlanItems
    \/ BuildRenames
    \/ RenameToTemp
    \/ RenameToFinal
    \/ RenameFolders
    \/ ListPdfs
    \/ ReformatPdf
    \/ StampPdf
    \/ Combine
Spec == Init /\ [][Next]_vars

(***************************************************************************)
(* build_renames and apply_renames called directly: the globals are set as *)
(* run_pipeline sets them, the items are any list of PDF items (a page     *)
(* count of 0 included, which plan_items never yields), and the tree holds *)
(* the items' files.                                                       *)
(***************************************************************************)
x_pdf == <<"x">> \o PDF_EXT
y_pdf == <<"y">> \o PDF_EXT
C_2_pdf == <<"C", " ", "2">> \o PDF_EXT
AllocPrefixes == {<<"C">>, <<"C", "-">>}
AllocItems ==
    {Item("pdf", 1, <<x_pdf>>), Item("pdf", MaxItemPages, <<x_pdf>>),
     Item("pdf", 0, <<y_pdf>>),
     Item("pdf", 1, <<C_1_pdf>>), Item("pdf", 1, <<C_2_pdf>>)}
AllocItemLists == UNION {[1..n -> AllocItems] : n \in 1..MaxItems}
AllocCalls ==
    [prefix : AllocPrefixes, digits : 1..MaxDigits, start_counter : {1, MaxAllocStart},
     dry_run : {FALSE}, backup_before_bates : {FALSE}, keep_original_name : BOOLEAN,
     rename_folders : {FALSE}, keep_original_folder_name : {TRUE},
     number_videos_at_end : {FALSE}, combine_final : {FALSE}, conversion_only : {FALSE}]
TreeOfItems(list) ==
    [files |-> [p \in {list[i].path : i \in 1..Len(list)} |->
                   Content(p, "orig",
                           list[CHOOSE i \in 1..Len(list) : list[i].path = p].pages)],
     dirs  |-> {}]
InitAlloc ==
    /\ args \in AllocCalls
    /\ PREFIX = args.prefix /\ DIGITS = args.digits /\ START_COUNTER = args.start_counter
    /\ DRY_RUN = args.dry_run /\ BACKUP_BEFORE_BATES = args.backup_before_bates
    /\ KEEP_ORIGINAL_NAME = args.keep_original_name
    /\ RENAME_FOLDERS = args.rename_folders
    /\ KEEP_FOLDER_NAME = args.keep_original_folder_name
    /\ NUMBER_VIDEOS_AT_END = args.number_videos_at_end
    /\ COMBINE_FINAL = args.combine_final /\ CONVERSION_ONLY = args.conversion_only
    /\ items \in AllocItemLists
    /\ tree = TreeOfItems(items)
    /\ tree0 = tree
    /\ pc = "build" /\ outcome = "none"
    /\ operations = <<>> /\ ranges = <<>> /\ counter = 0
    /\ temp_map = <<>> /\ pdfs = <<>> /\ idx = 0
    /\ renamed_list = <<>> /\ skipped_list = <<>> /\ error_list = <<>>
    /\ total_files = 0 /\ total_pages = 0
    /\ called = {} /\ clobbered = {}
    /\ planned = items /\ folder_ranges = <<>> /\ folder_log = <<>>
    /\ combined = NotCombined /\ preview = NoPreview /\ visited = <<>> /\ NoGui
NextAlloc ==
    \/ BuildRenames
    \/ RenameToTemp
    \/ RenameToFinal
SpecAlloc == InitAlloc /\ [][NextAlloc]_vars

(***************************************************************************)
(* The properties.                                                         *)
(***************************************************************************)
Built == "build_renames" \in called
LabelOf(path) == BATES_NAME_PATTERN(Stem(NameOf(path)))
LabelStart(m) == ToInt(m.start)
LabelEnd(m) == IF m.end # <<>> THEN ToInt(m.end) ELSE ToInt(m.start)
DistinctDests == \A i, j \in 1..Len(operations) : i # j => operations[i].dst # operations[j].dst
PagesOf(list) == [i \in 1..Len(list) |-> list[i].pages]

\* C1: allocation contiguity.  For every item list whose items have pages >= 1
\* and every start counter S, build_renames gives the first item the start S,
\* every item i the range start_i .. start_i + pages_i - 1, the next item the
\* start end_i + 1, and leaves the counter at the last end + 1; the ranges are
\* pairwise disjoint.
C1_AllocationContiguity ==
    (Built /\ \A i \in 1..Len(items) : items[i].pages >= 1) =>
        /\ Len(ranges) = Len(items)
        /\ ranges[1].start = START_COUNTER
        /\ \A i \in 1..Len(items) : ranges[i].end = ranges[i].start + items[i].pages - 1
        /\ \A i \in 1..(Len(items) - 1) : ranges[i + 1].start = ranges[i].end + 1
        /\ \A i, j \in 1..Len(items) : i < j => ranges[i].end < ranges[j].start
        /\ counter = ranges[Len(items)].end + 1
\* Pages [1,3,1] from 5 have been given (5,5), (6,8), (9,9) and the counter is 10.
C1_Witness ==
    /\ Built
    /\ PagesOf(items) = <<1, 3, 1>>
    /\ START_COUNTER = 5
    /\ ranges = <<[start |-> 5, end |-> 5], [start |-> 6, end |-> 8], [start |-> 9, end |-> 9]>>
    /\ counter = 10

\* The Bates numbers a file name carries, for the files outside the backup folder.
Carriers(n) ==
    {p \in DOMAIN tree.files :
        /\ BACKUP_FOLDER_NAME \notin Range(p)
        /\ LabelOf(p).ok
        /\ LabelStart(LabelOf(p)) <= n
        /\ n <= LabelEnd(LabelOf(p))}
\* C2: unique, gapless labelling on disk.  After an apply-mode run that ends
\* without a fatal abort, every number from the start counter to the last one
\* build_renames allocated is in the name-encoded range of exactly one file of
\* the tree outside the backup folder.
C2_GaplessOnDisk ==
    (pc = "done" /\ outcome = "returned" /\ ~DRY_RUN /\ Built) =>
        \A n \in START_COUNTER..(counter - 1) : Cardinality(Carriers(n)) = 1

\* C3: collision detection.  When two operations built by build_renames have
\* the same destination, build_renames raises SystemExit, apply_renames is
\* never entered and no file of the tree has been renamed.
C3_CollisionAborts ==
    (Built /\ ~DistinctDests) =>
        /\ outcome = "SystemExit"
        /\ pc = "done"
        /\ "apply_renames" \notin called
        /\ temp_map = <<>>
        /\ tree = tree0
\* build_renames has met two operations with one destination and has raised.
C3_Witness ==
    /\ Built
    /\ ~DistinctDests
    /\ Len(operations) >= 2
    /\ outcome = "SystemExit"

\* C4: dry-run performs zero mutation.  Whatever the tree and the other
\* toggles, at every point of a run_pipeline call with dry_run = true the
\* tree is the tree the call was given.
C4_DryRunNoMutation == args.dry_run => tree = tree0
\* A dry run with backup, folder renaming and the combined file all requested
\* has planned renames and returned.
C4_Witness ==
    /\ pc = "done" /\ outcome = "returned"
    /\ args.dry_run /\ args.backup_before_bates /\ args.rename_folders /\ args.combine_final
    /\ ~args.conversion_only
    /\ operations # <<>>
    /\ \E i \in 1..Len(operations) : operations[i].src # operations[i].dst

\* The PDFs of the stamping loop that apply_bates_to_pdf has been called on.
Handled(i) ==
    \/ pc = "stamp" /\ i < idx
    \/ pc = "done" /\ outcome = "SystemExit" /\ i <= idx
    \/ pc = "combine"
    \/ pc = "done" /\ outcome # "SystemExit"
\* The name matches the grammar, the file is readable, and its page count is
\* not the count the name implies.
PageMismatch(path) ==
    /\ LabelOf(path).ok
    /\ IsFile(tree, path) /\ tree.files[path].pages >= 0
    /\ tree.files[path].pages # LabelEnd(LabelOf(path)) - LabelStart(LabelOf(path)) + 1
Unstamped(path) == IsFile(tree, path) => tree.files[path].stamps = <<>>
\* C5: stamp consistency.  Once the stamping loop has handled a PDF whose name
\* matches the grammar and whose page count differs from the count the name
\* implies, the run has ended with SystemExit at that PDF: it is not stamped,
\* no later PDF of the list is stamped, and the loop's handler has not logged
\* the abort as a per-file error.
C5_MismatchAborts ==
    \A i \in 1..Len(pdfs) :
        (Handled(i) /\ PageMismatch(pdfs[i])) =>
            /\ pc = "done" /\ outcome = "SystemExit"
            /\ idx = i
            /\ \A j \in i..Len(pdfs) : Unstamped(pdfs[j])
            /\ \A k \in 1..Len(error_list) :
                  ~(error_list[k].what = "stamp" /\ error_list[k].path = pdfs[i])
\* The loop has stopped at a mismatching PDF with a matching PDF still to come.
C5_Witness ==
    /\ pc = "done" /\ outcome = "SystemExit"
    /\ idx \in 1..(Len(pdfs) - 1)
    /\ PageMismatch(pdfs[idx])
    /\ LabelOf(pdfs[idx + 1]).ok /\ ~PageMismatch(pdfs[idx + 1])

\* C6: label round-trip.  Every destination name build_renames builds for an
\* item with pages >= 1 (any prefix, start, digit width, with or without the
\* original name) is matched by BATES_NAME_PATTERN and parses back to the
\* item's prefix, start and end (no end for a one-page item).
C6_LabelRoundTrip ==
    Built =>
        \A i \in 1..Len(operations) :
            items[i].pages >= 1 =>
                /\ LabelOf(operations[i].dst).ok
                /\ LabelOf(operations[i].dst).prefix = PREFIX
                /\ LabelStart(LabelOf(operations[i].dst)) = ranges[i].start
                /\ IF items[i].pages = 1
                   THEN LabelOf(operations[i].dst).end = <<>>
                   ELSE /\ LabelOf(operations[i].dst).end # <<>>
                        /\ LabelEnd(LabelOf(operations[i].dst)) = ranges[i].end

\* C7: two-phase rename.  For every operation list with pairwise distinct
\* destinations, once apply_renames has completed every destination holds
\* the file that was at its operation's source before the call, and the
\* content of every source file is still in the tree.
C7_TwoPhaseRename ==
    (pc = "folders" /\ DistinctDests) =>
        /\ \A i \in 1..Len(operations) :
              IsFile(tree0, operations[i].src) =>
                  /\ IsFile(tree, operations[i].dst)
                  /\ tree.files[operations[i].dst] = tree0.files[operations[i].src]
        /\ \A i \in 1..Len(operations) :
              IsFile(tree0, operations[i].src) =>
                  \E q \in DOMAIN tree.files : tree.files[q] = tree0.files[operations[i].src]

\* C8: no destination is overwritten.  No rename of apply_renames has moved a
\* file onto a path that another file occupied at that moment.
C8_NoOverwrite == clobbered = {}

\* The files of blocked types that the traversal visits.
BlockedIn(t) ==
    {p \in DOMAIN t.files :
        /\ Ext(p) \in BLOCKED_OTHER_EXTS
        /\ BACKUP_FOLDER_NAME \notin Range(p)
        /\ NameOf(p) \notin JunkNames
        /\ \A k \in 1..Len(p) : ~Hidden(p[k])}
BlockedAbort ==
    /\ "plan_items" \notin called
    /\ "build_renames" \notin called
    /\ pc = "done" => /\ outcome = "returned"
                      /\ BlockedIn(tree0) \subseteq Range(skipped_list)
\* C9: blocked file types abort the run before allocation.  In a run that is
\* not conversion-only, when the tree holds a .doc, .eml or .msg file,
\* plan_items and build_renames are never called and the returned skipped
\* list holds every blocking file.
C9_BlockedBeforeAllocation ==
    (~args.conversion_only /\ BlockedIn(tree0) # {}) => BlockedAbort
\* A run on a tree with two blocking files has returned both.
C9_Witness ==
    /\ pc = "done" /\ outcome = "returned"
    /\ ~args.conversion_only
    /\ Cardinality(BlockedIn(tree0)) = 2
    /\ Len(skipped_list) = 2
\* C9 as stated, conversion-only runs included: whenever the tree holds a
\* .doc, .eml or .msg file the run returns before plan_items and
\* build_renames and its skipped list holds every blocking file.
C9_AsStated == BlockedIn(tree0) # {} => BlockedAbort

\* C10: fatal aborts are all-or-nothing.  When an apply-mode run has aborted
\* on the blocked-types check or on the destination-collision check, the
\* tree is the tree the run was given: nothing was created, deleted, copied,
\* converted or renamed.
C10_AbortTouchesNothing ==
    (/\ ~args.dry_run
     /\ pc = "done"
     /\ \/ "find_blocking_files" \in called /\ "plan_items" \notin called
        \/ outcome = "SystemExit" /\ Built /\ "apply_renames" \notin called)
    => tree = tree0

(***************************************************************************)
(* iter_finder_order_files called on its own, several times on one tree.   *)
(* The names hold numbers of different lengths, a number with a leading    *)
(* zero, an upper-case letter, a folder between files, hidden, temporary   *)
(* and junk files, a hidden folder, and folders with the backup name at    *)
(* the root and below it.                                                  *)
(***************************************************************************)
MaxListed == 4
MaxCalls == 2
f1_pdf  == <<"f", "1">> \o PDF_EXT
f2_pdf  == <<"f", "2">> \o PDF_EXT
f10_pdf == <<"f", "1", "0">> \o PDF_EXT
f01_pdf == <<"f", "0", "1">> \o PDF_EXT
F3_pdf  == <<"F", "3">> \o PDF_EXT
f5      == <<"f", "5">>
hidden_pdf == <<".", "h">> \o PDF_EXT
temp_pdf == <<"~", "t">> \o PDF_EXT
Thumbs_db == <<"T", "h", "u", "m", "b", "s", ".", "d", "b">>
OrderPool ==
    {<<f1_pdf>>, <<f2_pdf>>, <<f10_pdf>>, <<f01_pdf>>, <<F3_pdf>>,
     <<f5, f1_pdf>>, <<f5, f2_pdf>>, <<<<"g">>, a_pdf>>, <<hidden_pdf>>,
     <<temp_pdf>>, <<Thumbs_db>>, <<<<".", "d">>, a_pdf>>,
     <<BACKUP_FOLDER_NAME, a_pdf>>, <<<<"g">>, BACKUP_FOLDER_NAME, a_pdf>>}
OrderTrees ==
    {TreeOf({[path |-> p, pages |-> 1] : p \in ps}) :
        ps \in {x \in SUBSET OrderPool : Cardinality(x) \in 1..MaxListed}}
InitOrder ==
    /\ Defaults
    /\ Idle
    /\ args = CHOOSE c \in Calls : c.dry_run
    /\ tree \in OrderTrees
    /\ tree0 = tree
    /\ preview = NoPreview
    /\ visited = <<>> /\ NoGui
IterFinderOrderFiles ==
    /\ Len(visited) < MaxCalls
    /\ \E order \in iter_finder_order_files(tree, Root) : visited' = Append(visited, order)
    /\ UNCHANGED <<gui, args, config, tree, pc, outcome, plan, temp_map, pdfs, idx, lists,
                   tree0, called, clobbered, planned, folders, combined, preview>>
NextOrder ==
    \/ IterFinderOrderFiles
SpecOrder == InitOrder /\ [][NextOrder]_vars

\* The files the traversal is to visit: no hidden or junk name and no backup
\* folder on the path.
Visible(t) ==
    {p \in DOMAIN t.files :
        \A k \in 1..Len(p) : ~Hidden(p[k]) /\ p[k] \notin JunkNames /\ p[k] # BACKUP_FOLDER_NAME}
\* The first position at which two paths differ.
FirstDiff(p, q) == CHOOSE k \in 1..Len(p) : p[k] # q[k] /\ \A h \in 1..(k - 1) : p[h] = q[h]
\* C11: natural sort.  Every listing holds each visible file once, and of any
\* two files the one listed first is the one whose name, at the first folder
\* level where their paths part, is not after the other's in the natural
\* order (digit runs as numbers, the rest case-insensitively): the children
\* of every directory are in natural order and a subdirectory's files stand
\* at the subdirectory's position among its siblings.
C11_NaturalOrder ==
    \A c \in 1..Len(visited) :
        /\ Range(visited[c]) = Visible(tree)
        /\ Len(visited[c]) = Cardinality(Visible(tree))
        /\ \A i, j \in 1..Len(visited[c]) :
              i < j => ~NameLess(visited[c][j][FirstDiff(visited[c][i], visited[c][j])],
                                 visited[c][i][FirstDiff(visited[c][i], visited[c][j])])
\* f2.pdf, f10.pdf, f1.pdf and the folder f5 were listed as f1, f2, f5/f1, f10.
C11_Witness ==
    /\ DOMAIN tree.files = {<<f2_pdf>>, <<f10_pdf>>, <<f1_pdf>>, <<f5, f1_pdf>>}
    /\ visited # <<>>
    /\ visited[1] = <<<<f1_pdf>>, <<f2_pdf>>, <<f5, f1_pdf>>, <<f10_pdf>>>>

\* C12: ordering determinism.  Two listings of one unchanged tree are the
\* same sequence, whatever order the file system enumerated the entries in.
C12_SameTreeSameOrder ==
    \A c, d \in 1..Len(visited) : visited[c] = visited[d]

(***************************************************************************)
(* A preview followed by the real run: run_pipeline is called in dry-run   *)
(* mode, and when it has returned it is called again on the same folder    *)
(* with the same arguments and dry_run off.  preview keeps the plan the    *)
(* dry run built and reported.                                             *)
(***************************************************************************)
PreviewCalls ==
    {c \in AllCalls :
        /\ c.dry_run
        /\ [c EXCEPT !.dry_run = FALSE] \in Calls
        /\ ~c.backup_before_bates /\ ~c.rename_folders /\ ~c.combine_final}
InitPreview ==
    /\ Defaults
    /\ Idle
    /\ args \in PreviewCalls
    /\ tree \in Trees
    /\ tree0 = tree
    /\ preview = NoPreview
    /\ visited = <<>> /\ NoGui
CallAgain ==
    /\ pc = "done" /\ outcome = "returned"
    /\ args.dry_run
    /\ ~preview.reported
    /\ preview' = [reported |-> TRUE, operations |-> operations, ranges |-> ranges]
    /\ args' = [args EXCEPT !.dry_run = FALSE]
    /\ pc' = "idle" /\ outcome' = "none"
    /\ items' = <<>> /\ operations' = <<>> /\ ranges' = <<>> /\ counter' = 0
    /\ temp_map' = <<>> /\ pdfs' = <<>> /\ idx' = 0
    /\ renamed_list' = <<>> /\ skipped_list' = <<>> /\ error_list' = <<>>
    /\ total_files' = 0 /\ total_pages' = 0
    /\ called' = {} /\ clobbered' = {}
    /\ planned' = <<>> /\ folder_ranges' = <<>> /\ folder_log' = <<>>
    /\ combined' = NotCombined
    /\ UNCHANGED <<config, tree, tree0, visited, gui>>
NextPreview ==
    \/ RunPipeline
    \/ Backup
    \/ ConvertImages
    \/ ConvertHtmls
    \/ ConvertTxts
    \/ ConvertDocx
    \/ ReformatOnly
    \/ FindBlocking
    \/ PlanItems
    \/ BuildRenames
    \/ RenameToTemp
    \/ RenameToFinal
    \/ RenameFolders
    \/ ListPdfs
    \/ ReformatPdf
    \/ StampPdf
    \/ Combine
    \/ CallAgain
SpecPreview == InitPreview /\ [][NextPreview]_vars

\* C13: the dry-run preview is the plan of the mutating path.  When the apply
\* run that follows a dry run of the same configuration on the same tree has
\* ended, the operations (sources and destinations) and the Bates ranges it
\* built are the ones the dry run reported.
C13_PreviewIsThePlan ==
    (preview.reported /\ ~args.dry_run /\ pc = "done") =>
        /\ operations = preview.operations
        /\ ranges = preview.ranges

(***************************************************************************)
(* run_pipeline from the end of apply_renames on (lines 1157-1180): folder *)
(* renaming, stamping and the combined file, on trees whose files carry    *)
(* labels already, as apply_renames leaves them.  Every file has the page  *)
(* count its name implies.                                                 *)
(***************************************************************************)
MaxLabelled == 3
L(prefix, first, last) ==
    (IF first = last THEN prefix \o <<" ">> \o ToDigits(first)
     ELSE prefix \o <<" ">> \o ToDigits(first) \o <<"-">> \o ToDigits(last)) \o PDF_EXT
LabelledPool ==
    {[path |-> <<L(<<"C">>, 1, 1)>>, pages |-> 1],
     [path |-> <<<<"s">>, L(<<"C">>, 1, 1)>>, pages |-> 1],
     [path |-> <<<<"s">>, L(<<"C">>, 10, 12)>>, pages |-> 3],
     [path |-> <<<<"s">>, <<"t">>, L(<<"C">>, 2, 3)>>, pages |-> 2],
     [path |-> <<<<"u">>, L(<<"C">>, 1, 1)>>, pages |-> 1],
     [path |-> <<<<"u">>, L(<<"C">>, 0, 0)>>, pages |-> 1],
     [path |-> <<<<".", "h">>, L(<<"C">>, 4, 4)>>, pages |-> 1],
     [path |-> <<BACKUP_FOLDER_NAME, <<"s">>, L(<<"C">>, 9, 9)>>, pages |-> 1],
     [path |-> <<<<"C", " ", "1", " ", "-", " ", "s">>, x_pdf>>, pages |-> 1],
     [path |-> <<<<"s">>, x_pdf>>, pages |-> 1]}
LabelledTrees ==
    {TreeOf(fs) : fs \in {x \in SUBSET LabelledPool : Cardinality(x) \in 1..MaxLabelled}}
LabelledCalls ==
    {c \in AllCalls :
        /\ ~c.dry_run /\ ~c.conversion_only /\ ~c.backup_before_bates
        /\ ~c.keep_original_name /\ ~c.number_videos_at_end
        /\ ~c.rename_folders => c.keep_original_folder_name}
InitLabelled ==
    /\ args \in LabelledCalls
    /\ PREFIX = args.prefix /\ DIGITS = args.digits /\ START_COUNTER = args.start_counter
    /\ DRY_RUN = args.dry_run /\ BACKUP_BEFORE_BATES = args.backup_before_bates
    /\ KEEP_ORIGINAL_NAME = args.keep_original_name
    /\ RENAME_FOLDERS = args.rename_folders
    /\ KEEP_FOLDER_NAME = args.keep_original_folder_name
    /\ NUMBER_VIDEOS_AT_END = args.number_videos_at_end
    /\ COMBINE_FINAL = args.combine_final /\ CONVERSION_ONLY = args.conversion_only
    /\ tree \in LabelledTrees
    /\ tree0 = tree
    /\ pc = "folders" /\ outcome = "none"
    /\ items = <<>> /\ operations = <<>> /\ ranges = <<>> /\ counter = 0
    /\ temp_map = <<>> /\ pdfs = <<>> /\ idx = 1
    /\ renamed_list = <<>> /\ skipped_list = <<>> /\ error_list = <<>>
    /\ total_files = 0 /\ total_pages = 0
    /\ called = {} /\ clobbered = {}
    /\ planned = <<>> /\ folder_ranges = <<>> /\ folder_log = <<>>
    /\ combined = NotCombined /\ preview = NoPreview /\ visited = <<>> /\ NoGui
NextLabelled ==
    \/ RenameFolders
    \/ ListPdfs
    \/ ReformatPdf
    \/ StampPdf
    \/ Combine
SpecLabelled == InitLabelled /\ [][NextLabelled]_vars

\* collect_folder_bates_ranges has run (as part of the folder renaming).
Collected == RENAME_FOLDERS /\ pc # "folders"
Below(files, d) == {p \in files : Len(p) > Len(d) /\ StartsWith(p, d)}
\* The label-matching files below d that the traversal visits, and those
\* outside the backup folder.
LabelledVisible(t, d) == {p \in Below(Visible(t), d) : LabelOf(p).ok}
LabelledOutsideBackup(t, d) ==
    {p \in Below(DOMAIN t.files, d) : BACKUP_FOLDER_NAME \notin Range(p) /\ LabelOf(p).ok}
Least(S) == CHOOSE x \in S : \A y \in S : x <= y
Greatest(S) == CHOOSE x \in S : \A y \in S : x >= y
MappedFolders == {folder_ranges[i].folder : i \in 1..Len(folder_ranges)}
RolledUp(labelled(_)) ==
    /\ \A i, j \in 1..Len(folder_ranges) :
          folder_ranges[i].folder = folder_ranges[j].folder => i = j
    /\ MappedFolders = {d \in tree0.dirs \cup {Root} : labelled(d) # {}}
    /\ \A i \in 1..Len(folder_ranges) :
          /\ folder_ranges[i].start =
                Least({LabelStart(LabelOf(p)) : p \in labelled(folder_ranges[i].folder)})
          /\ folder_ranges[i].end =
                Greatest({LabelEnd(LabelOf(p)) : p \in labelled(folder_ranges[i].folder)})
\* C14: folder range rollup.  collect_folder_bates_ranges maps every directory
\* from the root downward with at least one label-matching file below it that
\* the traversal visits (outside the backup folder, no hidden name on its
\* path) to the least start and the greatest end-or-start of those files, and
\* maps no other directory.
C14_FolderRollup ==
    Collected => RolledUp(LAMBDA d : LabelledVisible(tree0, d))
\* C 1 and C 10-12 in the folder s have given s the range (1, 12).
C14_Witness ==
    /\ Collected
    /\ {<<<<"s">>, L(<<"C">>, 1, 1)>>, <<<<"s">>, L(<<"C">>, 10, 12)>>} \subseteq DOMAIN tree0.files
    /\ \E i \in 1..Len(folder_ranges) :
          folder_ranges[i] = [folder |-> <<<<"s">>>>, start |-> 1, end |-> 12]
\* C14 as stated: every directory with at least one label-matching file below
\* it outside the backup folder is mapped, hidden folders included.
C14_AsStated ==
    Collected => RolledUp(LAMBDA d : LabelledOutsideBackup(tree0, d))

\* C15: folder renaming is deepest-first.  rename_folders_with_bates processes
\* the directories of the range map in non-increasing path depth, and the path
\* recorded for each directory still exists when the directory is processed.
C15_DeepestFirst ==
    Collected =>
        /\ Len(folder_log) = Len(folder_ranges)
        /\ \A i \in 1..Len(folder_log) :
              /\ folder_log[i].existed
              /\ \A j \in 1..Len(folder_log) :
                    i < j => Len(folder_log[i].folder) >= Len(folder_log[j].folder)
\* A folder was renamed after one of its subfolders had been renamed.
C15_Witness ==
    /\ Collected
    /\ \E i, j \in 1..Len(folder_log) :
          /\ i < j
          /\ folder_log[i].renamed /\ folder_log[j].renamed
          /\ Len(folder_log[j].folder) = 1
          /\ Len(folder_log[i].folder) = 2
          /\ StartsWith(folder_log[i].folder, folder_log[j].folder)

\* C16: folder renaming never clobbers and never renames excluded directories.
\* rename_folders_with_bates renames no directory whose destination already
\* exists (the pass goes on with the remaining directories), never the root, a
\* directory whose name starts with '.' or '~', or one whose range has
\* start <= 0 or end < start; no file of the tree is lost by the pass.
C16_NoClobber ==
    Collected =>
        /\ Len(folder_log) = Len(folder_ranges)
        /\ \A i \in 1..Len(folder_log) :
              folder_log[i].renamed =>
                  /\ ~folder_log[i].occupied
                  /\ folder_log[i].folder # Root
                  /\ Head(NameOf(folder_log[i].folder)) \notin {".", "~"}
                  /\ folder_log[i].start > 0
                  /\ folder_log[i].end >= folder_log[i].start
        /\ pc = "list_pdfs" =>
              /\ Cardinality(DOMAIN tree.files) = Cardinality(DOMAIN tree0.files)
              /\ \A p \in DOMAIN tree.files : tree.files[p].orig \in DOMAIN tree0.files
\* A directory whose destination was taken stayed where it was, and a
\* directory processed after it was renamed.
C16_Witness ==
    /\ Collected
    /\ \E i, j \in 1..Len(folder_log) :
          /\ i < j
          /\ folder_log[i].occupied /\ ~folder_log[i].renamed
          /\ folder_log[i].folder \in tree.dirs
          /\ folder_log[j].renamed

\* The label-matching files the traversal visits when the combined file is
\* assembled, and the PDFs among them.
Matching == {p \in Visible(tree) : p # combined.out /\ LabelOf(p).ok}
MatchingPdfs == {p \in Matching : Ext(p) = PDF_EXT}
RootStart == Least({LabelStart(LabelOf(p)) : p \in Matching})
RootEnd == Greatest({LabelEnd(LabelOf(p)) : p \in Matching})
RECURSIVE PartPages(_)
PartPages(parts) ==
    IF parts = <<>> THEN 0 ELSE tree.files[Head(parts)].pages + PartPages(Tail(parts))
\* C17: combined assembly order and name.  create_combined_final_pdf
\* concatenates the pages of all label-matching PDFs in ascending order of
\* their file name's start value, into a file named from the root's (min, max)
\* range, and returns None and writes no file when the root has no range or an
\* invalid one.
C17_CombinedInStartOrder ==
    (COMBINE_FINAL /\ pc = "done" /\ outcome = "returned") =>
        IF Matching = {} \/ RootStart <= 0 \/ RootEnd < RootStart \/ MatchingPdfs = {}
        THEN /\ combined.out = <<>>
             /\ \A p \in DOMAIN tree.files : tree.files[p].kind # "combined"
        ELSE /\ combined.out = <<PREFIX \o <<" ">> \o Pad(RootStart, DIGITS) \o <<"-", " ">>
                                    \o PREFIX \o <<" ">> \o Pad(RootEnd, DIGITS) \o PDF_EXT>>
             /\ combined.out \in DOMAIN tree.files
             /\ tree.files[combined.out].kind = "combined"
             /\ tree.files[combined.out].pages = PartPages(combined.parts)
             /\ Range(combined.parts) = MatchingPdfs
             /\ Len(combined.parts) = Cardinality(MatchingPdfs)
             /\ \A i, j \in 1..Len(combined.parts) :
                   i < j => LabelStart(LabelOf(combined.parts[i]))
                               <= LabelStart(LabelOf(combined.parts[j]))
\* C 2-3 from the subfolder went into the combined file before C 10-12, which
\* the traversal lists first.
C17_Witness ==
    /\ COMBINE_FINAL /\ pc = "done" /\ outcome = "returned"
    /\ Len(combined.parts) = 2
    /\ NameOf(combined.parts[1]) = L(<<"C">>, 2, 3)
    /\ NameOf(combined.parts[2]) = L(<<"C">>, 10, 12)
    /\ tree.files[combined.out].pages = 5

BackupOf(p) == <<BACKUP_FOLDER_NAME>> \o p
InBackup(t) == {q \in DOMAIN t.files : Head(q) = BACKUP_FOLDER_NAME}
\* C18: backup precedes every mutation.  In an apply run with backup enabled
\* nothing has changed in the tree when backup_originals is called, and from
\* then on the backup folder holds, for every file of the traversal, a copy of
\* the file as it was when run_pipeline was called, and nothing else that the
\* folder did not hold before.
C18_BackupBeforeMutation ==
    /\ pc = "backup" => tree = tree0
    /\ (~args.dry_run /\ args.backup_before_bates /\ pc \notin {"idle", "backup"}) =>
          /\ "backup_originals" \in called
          /\ \A p \in Visible(tree0) :
                /\ BackupOf(p) \in DOMAIN tree.files
                /\ tree.files[BackupOf(p)] =
                      IF BackupOf(p) \in DOMAIN tree0.files
                      THEN tree0.files[BackupOf(p)] ELSE tree0.files[p]
          /\ \A q \in InBackup(tree) : q \in InBackup(tree0) \/ Tail(q) \in Visible(tree0)
\* A run with backup has finished; a file it was given is no longer where it
\* was, a PDF has been stamped, and the backup holds the file as it was.
C18_Witness ==
    /\ pc = "done" /\ outcome = "returned"
    /\ "backup_originals" \in called
    /\ \E p \in Visible(tree0) :
          /\ p \notin DOMAIN tree.files
          /\ tree.files[BackupOf(p)] = tree0.files[p]
    /\ \E q \in DOMAIN tree.files : tree.files[q].stamps # <<>>

Logged(path) == \E k \in 1..Len(error_list) : error_list[k].path = path
\* C19: per-item errors are accumulated and do not stop the run.  When an
\* apply run has returned, every Word file whose conversion to PDF failed is
\* named in the errors list of the result.
C19_FailuresAreLogged ==
    (pc = "done" /\ outcome = "returned" /\ ~args.dry_run /\ ~args.conversion_only) =>
        \A i \in 1..Len(planned) :
            planned[i].kind = "word_no_pdf" => Logged(planned[i].path)


(***************************************************************************)
(* Planning and reordering on folders with videos: run_pipeline from       *)
(* plan_items (line 1110) to build_renames (line 1126), on every folder of *)
(* 1..MaxReordered files from a pool of PDFs (one without pages), a Word   *)
(* file, a spreadsheet and videos, one of them in a subfolder.             *)
(***************************************************************************)
MaxReordered == 4
k_xlsx == <<"k", ".", "x", "l", "s", "x">>
m_mov == <<"m", ".", "m", "o", "v">>
b_mp4 == <<"b", ".", "m", "p", "4">>
e_pdf == <<"e">> \o PDF_EXT
ReorderPool ==
    {[path |-> <<a_pdf>>, pages |-> 1],
     [path |-> <<b_docx>>, pages |-> -1],
     [path |-> <<e_pdf>>, pages |-> 0],
     [path |-> <<k_xlsx>>, pages |-> -1],
     [path |-> <<m_mov>>, pages |-> -1],
     [path |-> <<<<"s">>, b_mp4>>, pages |-> -1],
     [path |-> <<v_mp4>>, pages |-> -1],
     [path |-> <<z_pdf>>, pages |-> 2]}
ReorderTrees ==
    {TreeOf(fs) : fs \in {x \in SUBSET ReorderPool : Cardinality(x) \in 1..MaxReordered}}
ReorderCalls ==
    {c \in AllCalls :
        /\ ~c.conversion_only /\ ~c.backup_before_bates
        /\ ~c.rename_folders /\ ~c.keep_original_folder_name /\ ~c.combine_final}
InitReorder ==
    /\ args \in ReorderCalls
    /\ PREFIX = args.prefix /\ DIGITS = args.digits /\ START_COUNTER = args.start_counter
    /\ DRY_RUN = args.dry_run /\ BACKUP_BEFORE_BATES = args.backup_before_bates
    /\ KEEP_ORIGINAL_NAME = args.keep_original_name
    /\ RENAME_FOLDERS = args.rename_folders
    /\ KEEP_FOLDER_NAME = args.keep_original_folder_name
    /\ NUMBER_VIDEOS_AT_END = args.number_videos_at_end
    /\ COMBINE_FINAL = args.combine_final /\ CONVERSION_ONLY = args.conversion_only
    /\ tree \in ReorderTrees
    /\ tree0 = tree
    /\ pc = "plan" /\ outcome = "none"
    /\ items = <<>> /\ operations = <<>> /\ ranges = <<>> /\ counter = 0
    /\ temp_map = <<>> /\ pdfs = <<>> /\ idx = 1
    /\ renamed_list = <<>> /\ skipped_list = <<>> /\ error_list = <<>>
    /\ total_files = 0 /\ total_pages = 0
    /\ called = {} /\ clobbered = {}
    /\ planned = <<>> /\ folder_ranges = <<>> /\ folder_log = <<>>
    /\ combined = NotCombined /\ preview = NoPreview /\ visited = <<>> /\ NoGui
NextReorder ==
    \/ PlanItems
    \/ BuildRenames
SpecReorder == InitReorder /\ [][NextReorder]_vars

\* reorder_items_for_videos has been applied to plan_items' result.
Reordered == "build_renames" \in called
PlaceOf(seq, x) == CHOOSE k \in 1..Len(seq) : seq[k] = x
IsVideo(it) == it.kind = "video"
\* C20: videos-at-end is a stable partition.  With the toggle set the items
\* numbered are the planned items, each once, no video before a non-video,
\* and two videos, or two non-videos, in the order plan_items gave them; with
\* the toggle off they are the planned items in the planned order.
C20_StablePartition ==
    Reordered =>
        IF NUMBER_VIDEOS_AT_END
        THEN /\ Len(items) = Len(planned)
             /\ Range(items) = Range(planned)
             /\ \A i, j \in 1..Len(items) :
                   i < j => ~(IsVideo(items[i]) /\ ~IsVideo(items[j]))
             /\ \A i, j \in 1..Len(planned) :
                   (i < j /\ IsVideo(planned[i]) = IsVideo(planned[j])) =>
                       PlaceOf(items, planned[i]) < PlaceOf(items, planned[j])
        ELSE items = planned
\* Two videos planned before a PDF were moved behind it in their order.
C20_Witness ==
    /\ Reordered /\ NUMBER_VIDEOS_AT_END
    /\ Len(planned) = 4
    /\ IsVideo(planned[2]) /\ IsVideo(planned[3]) /\ ~IsVideo(planned[4])
    /\ items = <<planned[1], planned[4], planned[2], planned[3]>>


\* The files the statement excludes: a hidden, temporary or junk file name, a
\* hidden or temporary folder on the path, or a path under the backup folder
\* of the root.
Excluded(p) ==
    \/ Hidden(NameOf(p))
    \/ NameOf(p) \in {Thumbs_db, <<"d", "e", "s", "k", "t", "o", "p", ".", "i", "n", "i">>}
    \/ \E k \in 1..(Len(p) - 1) : Head(p[k]) \in {".", "~"}
    \/ Head(p) = BACKUP_FOLDER_NAME
\* C21: traversal exclusions.  iter_finder_order_files yields no excluded
\* file, and every other file of the tree exactly once.
C21_ExclusionsOnly ==
    \A c \in 1..Len(visited) :
        /\ \A i \in 1..Len(visited[c]) : ~Excluded(visited[c][i])
        /\ \A i, j \in 1..Len(visited[c]) : visited[c][i] = visited[c][j] => i = j
        /\ Range(visited[c]) = {p \in DOMAIN tree.files : ~Excluded(p)}


\* plan_items has returned.
Planned == "plan_items" \in called
ItemsOf(p) == {i \in 1..Len(planned) : planned[i].path = p}
AllStamped == pc = "combine" \/ (pc = "done" /\ outcome = "returned")
StampedFiles == {p \in DOMAIN tree.files : tree.files[p].kind # "combined" /\ tree.files[p].stamps # <<>>}
\* C23: per-page label numbers.  A stamped file whose name encodes start s
\* (and end e) has one label per page, page i (from 0) carries s + i, and the
\* last page carries e, or s when the name has no end; after the stamping
\* loop every visited label-matching PDF is stamped.
C23_PageLabels ==
    /\ \A p \in StampedFiles :
          /\ LabelOf(p).ok
          /\ Len(tree.files[p].stamps) = tree.files[p].pages
          /\ \A i \in 0..(tree.files[p].pages - 1) :
                tree.files[p].stamps[i + 1] = LabelStart(LabelOf(p)) + i
          /\ tree.files[p].stamps[tree.files[p].pages] = LabelEnd(LabelOf(p))
    /\ AllStamped => MatchingPdfs \subseteq StampedFiles
\* C 10-12, of three pages, carries 10, 11 and 12.
C23_Witness ==
    /\ AllStamped
    /\ \E p \in StampedFiles :
          NameOf(p) = L(<<"C">>, 10, 12) /\ tree.files[p].stamps = <<10, 11, 12>>


\* C24: the combined-output file is a non-Bates file for the stamper.  The
\* name 'PREFIX START- PREFIX END.pdf' of a combined file that has been
\* written does not match the label grammar, and apply_bates_to_pdf called
\* on the file skips it.
C24_CombinedIsSkipped ==
    (pc = "done" /\ combined.out # <<>>) =>
        /\ ~BATES_NAME_PATTERN(Stem(NameOf(combined.out))).ok
        /\ apply_bates_to_pdf(tree, combined.out).status = "skipped"


\* C25: one rename operation per file.  In the plan plan_items and
\* build_renames build, no two operations have the same source path.
C25_OneOperationPerFile ==
    \A i, j \in 1..Len(operations) :
        operations[i].src = operations[j].src => i = j


(***************************************************************************)
(* The GUI (src/gui.py).  on_run_clicked runs in the main loop: it         *)
(* disables the Run button and starts a worker thread on                   *)
(* run_pipeline_thread, which calls run_pipeline and hands display_summary *)
(* or handle_error to the main loop with after(0, ...).  A disabled        *)
(* ttk.Button does not invoke its command.  The runs of one session work   *)
(* on one root folder, each on the tree the preceding run left.            *)
(***************************************************************************)
MaxClicks == 2
\* Folders of the pipeline model, and the folders an earlier session has left
\* a backup in.
GuiTrees ==
    {t \in Trees : \A p \in DOMAIN t.files : NameOf(p) \in {a_pdf, C_1_pdf, c_jpg, v_mp4}}
    \cup {TreeOf({[path |-> <<a_pdf>>, pages |-> 1],
                  [path |-> <<BACKUP_FOLDER_NAME, a_pdf>>, pages |-> n]}) : n \in 1..MaxPages}
GuiCalls ==
    {c \in AllCalls :
        /\ ~c.conversion_only /\ ~c.keep_original_name /\ ~c.rename_folders
        /\ c.keep_original_folder_name /\ ~c.number_videos_at_end /\ ~c.combine_final}
InitGui ==
    /\ Defaults
    /\ Idle
    /\ args \in GuiCalls
    /\ tree \in GuiTrees
    /\ tree0 = tree
    /\ preview = NoPreview
    /\ visited = <<>> /\ NoGui
\* A faulty variant of the test below: the button's state is not looked at.
AlwaysClickable(state) == TRUE
\* state="disabled" (set_running_state): the button ignores the click.
Clickable(state) == state = "normal"
\* on_run_clicked with valid inputs: set_running_state(True), thread.start().
\* A thread started while another one is in run_pipeline assigns the globals
\* at once (src/core.py 1000-1015).
OnRunClicked ==
    /\ Clickable(run_button)
    /\ clicks < MaxClicks
    /\ run_button' = "disabled"
    /\ workers' = workers + 1
    /\ clicks' = clicks + 1
    /\ \E call \in GuiCalls :
          IF workers = 0
          THEN args' = call /\ UNCHANGED config
          ELSE /\ PREFIX' = call.prefix
               /\ DIGITS' = call.digits
               /\ START_COUNTER' = call.start_counter
               /\ DRY_RUN' = call.dry_run
               /\ BACKUP_BEFORE_BATES' = call.backup_before_bates
               /\ KEEP_ORIGINAL_NAME' = call.keep_original_name
               /\ RENAME_FOLDERS' = call.rename_folders
               /\ KEEP_FOLDER_NAME' = call.keep_original_folder_name
               /\ NUMBER_VIDEOS_AT_END' = call.number_videos_at_end
               /\ COMBINE_FINAL' = call.combine_final
               /\ CONVERSION_ONLY' = call.conversion_only
               /\ UNCHANGED args
    /\ UNCHANGED <<posted, tree, pc, outcome, plan, temp_map, pdfs, idx, lists,
                   tree0, called, clobbered, planned, folders, combined, direct>>
\* The worker thread enters run_pipeline.
WorkerStarts ==
    /\ workers > 0
    /\ RunPipeline
\* run_pipeline_thread after run_pipeline (lines 328-345): the summary goes to
\* display_summary, an Exception to handle_error; SystemExit is not an
\* Exception, it ends the thread and threading drops it.
WorkerEnds ==
    /\ pc = "done"
    /\ workers > 0
    /\ workers' = workers - 1
    /\ posted' = IF outcome = "returned" THEN "display_summary"
                 ELSE IF outcome = "Exception" THEN "handle_error"
                 ELSE posted
    /\ pc' = "idle" /\ outcome' = "none"
    /\ items' = <<>> /\ operations' = <<>> /\ ranges' = <<>> /\ counter' = 0
    /\ temp_map' = <<>> /\ pdfs' = <<>> /\ idx' = 0
    /\ renamed_list' = <<>> /\ skipped_list' = <<>> /\ error_list' = <<>>
    /\ total_files' = 0 /\ total_pages' = 0
    /\ called' = {} /\ clobbered' = {}
    /\ planned' = <<>> /\ folder_ranges' = <<>> /\ folder_log' = <<>>
    /\ combined' = NotCombined
    /\ UNCHANGED <<args, config, tree, tree0, direct, run_button, clicks>>
\* display_summary ends with set_running_state(False).
DisplaySummary ==
    /\ posted = "display_summary"
    /\ posted' = "none"
    /\ run_button' = "normal"
    /\ UNCHANGED <<args, config, tree, pc, outcome, plan, temp_map, pdfs, idx, lists,
                   tree0, called, clobbered, planned, folders, combined, direct,
                   workers, clicks>>
\* handle_error ends with set_running_state(False).
HandleError ==
    /\ posted = "handle_error"
    /\ posted' = "none"
    /\ run_button' = "normal"
    /\ UNCHANGED <<args, config, tree, pc, outcome, plan, temp_map, pdfs, idx, lists,
                   tree0, called, clobbered, planned, folders, combined, direct,
                   workers, clicks>>
WorkerStep ==
    \/ WorkerStarts
    \/ Backup
    \/ ConvertImages
    \/ ConvertHtmls
    \/ ConvertTxts
    \/ FindBlocking
    \/ PlanItems
    \/ BuildRenames
    \/ RenameToTemp
    \/ RenameToFinal
    \/ RenameFolders
    \/ ListPdfs
    \/ ReformatPdf
    \/ StampPdf
    \/ Combine
    \/ WorkerEnds
NextGui ==
    \/ OnRunClicked
    \/ WorkerStep
    \/ DisplaySummary
    \/ HandleError
SpecGui == InitGui /\ [][NextGui]_vars
\* The worker thread and the main loop keep running; the user need not click.
\* Weak fairness of the worker's steps, with the enabling condition written
\* out (a live worker thread can always take its next step), and of the two
\* callbacks handed to after().
WorkerEnabled == workers > 0
SpecGuiLive ==
    /\ SpecGui
    /\ ([]<>(~WorkerEnabled) \/ []<><<WorkerStep>>_vars)
    /\ WF_vars(DisplaySummary)
    /\ WF_vars(HandleError)


\* C26: the GUI always returns to idle.  Whenever a run started from the GUI
\* has disabled the Run button, the button is eventually enabled again,
\* however the run ends.
C26_GuiReturnsToIdle == (run_button = "disabled") ~> (run_button = "normal")


\* The globals hold the values of the call c.
GlobalsOf(c) ==
    /\ PREFIX = c.prefix /\ DIGITS = c.digits /\ START_COUNTER = c.start_counter
    /\ DRY_RUN = c.dry_run /\ BACKUP_BEFORE_BATES = c.backup_before_bates
    /\ KEEP_ORIGINAL_NAME = c.keep_original_name /\ RENAME_FOLDERS = c.rename_folders
    /\ KEEP_FOLDER_NAME = c.keep_original_folder_name
    /\ NUMBER_VIDEOS_AT_END = c.number_videos_at_end
    /\ COMBINE_FINAL = c.combine_final /\ CONVERSION_ONLY = c.conversion_only
\* C27: single writer from the GUI.  At most one worker thread started by the
\* GUI is alive at any time, the Run button is disabled while it is, and
\* while a run is past its first lines the globals hold the values that run
\* was called with.
C27_SingleWorker ==
    /\ workers <= 1
    /\ workers = 1 => run_button = "disabled"
    /\ pc # "idle" => (workers = 1 /\ GlobalsOf(args))
\* The second run of a session is planning; the first has ended and its
\* summary has been shown.
C27_Witness ==
    /\ clicks = 2 /\ workers = 1
    /\ pc = "plan"
    /\ posted = "none"
    /\ GlobalsOf(args)


(***************************************************************************)
(* Apply runs with folder renaming, from the call to the folder ranges     *)
(* (run_pipeline up to line 1161), on folders that hold, next to the files *)
(* that are planned, a PDF without pages whose name is already a label.    *)
(***************************************************************************)
MaxRanged == 3
C_9_pdf == <<"C", " ", "9">> \o PDF_EXT
RangePool ==
    {[path |-> <<a_pdf>>, pages |-> 2],
     [path |-> <<v_mp4>>, pages |-> -1],
     [path |-> <<<<"s">>, z_pdf>>, pages |-> 1],
     [path |-> <<<<"s">>, C_9_pdf>>, pages |-> 0],
     [path |-> <<<<"u">>, x_pdf>>, pages |-> 1]}
RangeTrees ==
    {TreeOf(fs) : fs \in {x \in SUBSET RangePool : Cardinality(x) \in 1..MaxRanged}}
RangeCalls ==
    {c \in AllCalls :
        /\ ~c.dry_run /\ ~c.conversion_only /\ c.rename_folders
        /\ ~c.number_videos_at_end /\ ~c.combine_final}
InitRanges ==
    /\ Defaults
    /\ Idle
    /\ args \in RangeCalls
    /\ tree \in RangeTrees
    /\ tree0 = tree
    /\ preview = NoPreview
    /\ visited = <<>> /\ NoGui
NextRanges ==
    \/ RunPipeline
    \/ Backup
    \/ ConvertImages
    \/ ConvertHtmls
    \/ ConvertTxts
    \/ FindBlocking
    \/ PlanItems
    \/ BuildRenames
    \/ RenameToTemp
    \/ RenameToFinal
    \/ RenameFolders
SpecRanges == InitRanges /\ [][NextRanges]_vars

\* C28: folder ranges stay inside the allocated interval.  After the file
\* renames of an apply run every range of collect_folder_bates_ranges lies
\* between the start counter and the last number build_renames allocated.
C28_RangesWithinAllocation ==
    (pc = "list_pdfs" /\ RENAME_FOLDERS /\ ~DRY_RUN) =>
        \A i \in 1..Len(folder_ranges) :
            /\ START_COUNTER <= folder_ranges[i].start
            /\ folder_ranges[i].start <= folder_ranges[i].end
            /\ folder_ranges[i].end <= counter - 1


\* The items are such as plan_items yields: at least one page each.
Sized == \A i \in 1..Len(planned) : planned[i].pages >= 1
\* C29: the destination-collision abort is unreachable from planned items.
\* For every item list whose items have pages >= 1 and every configuration,
\* the destinations build_renames builds are pairwise distinct and it does
\* not raise SystemExit.
C29_NoCollisionFromPlan ==
    (Built /\ Sized) =>
        /\ \A i, j \in 1..Len(operations) :
              operations[i].dst = operations[j].dst => i = j
        /\ ~(outcome = "SystemExit" /\ "apply_renames" \notin called)
\* One file listed twice, original names kept: two destinations all the same.
C29_Witness ==
    /\ Built /\ Sized /\ KEEP_ORIGINAL_NAME
    /\ Len(operations) = MaxItems
    /\ operations[1].src = operations[2].src
    /\ operations[1].dst # operations[2].dst
    /\ outcome = "none"


\* C30: backups are write-once.  No step of any run of a session removes a
\* file from the backup folder or changes what it holds.
C30_BackupsWriteOnce ==
    [][\A q \in InBackup(tree) : q \in DOMAIN tree'.files /\ tree'.files[q] = tree.files[q]]_vars
\* backup_originals has met a file whose backup path was taken by another
\* content, and the backup still holds that content.
C30_Witness ==
    /\ "backup_originals" \in called
    /\ \E p \in Visible(tree0) :
          /\ BackupOf(p) \in DOMAIN tree0.files
          /\ tree0.files[BackupOf(p)] # tree0.files[p]
          /\ tree.files[BackupOf(p)] = tree0.files[BackupOf(p)]
====
